---------------------------- MODULE Spec2Model ----------------------------
(***************************************************************************)
(* Streaming voxel world: scanner / relevance tracker (scanner.rs), the    *)
(* generation pipeline and the engine's mesh systems (voxel_engine.rs),    *)
(* the MeshingPipeline systems (rendering.rs) and the modification         *)
(* dispatcher, driven frame by frame in the order of the Bevy schedules.   *)
(*                                                                         *)
(* Chunk coordinates are IVec3 values <<x, y, z>>.  The state tracks the   *)
(* chunks of one row of the world (y = 0, z = 0): every place where a      *)
(* chunk coordinate enters the state goes through Row.  EditSpec alone     *)
(* starts from a chunk off the row, where generate yields uniform chunks.  *)
(*                                                                         *)
(* The block registry (voxel.rs), the index and vertex functions of        *)
(* utils.rs and the noise downsamplers of chunk.rs touch none of that      *)
(* state: RegistrySpec and UtilSpec follow them on their own.              *)
(***************************************************************************)
EXTENDS Integers, Sequences, FiniteSets, Bags, TLC

\* ------------------------------------------------------------------------
\* Bounds of the model
\* ------------------------------------------------------------------------

\* Task caps of the pipelines, scaled down from 64 and 32 so that a handful
\* of chunks fills them.
MAX_DATA_TASKS == 2

MAX_MESH_TASKS == 1

\* Number of modification batches an execution may submit.
MaxBatches == 1

\* Number of mesh tasks of the VoxelEngine the task pool lets pile up.
MaxMeshBacklog == 2

\* Most blocks added to a BlockRegistry
MaxBlocks == 2

\* ------------------------------------------------------------------------
\* Values
\* ------------------------------------------------------------------------

Channels == {"Data", "Mesh"}

Entities == {"e1", "e2"}

\* World translations an observer may be given: two inside chunk 0 and one
\* inside chunk 1 of the tracked row.
Translations == {<<16, 16, 16>>, <<20, 16, 16>>, <<48, 16, 16>>}

\* Scanner::new(horizontal_radius, None) of each channel.
ScannerRadius(T) == IF T = "Data" THEN 1 ELSE 0

ZERO == <<0, 0, 0>>

VecAdd(a, b) == <<a[1] + b[1], a[2] + b[2], a[3] + b[3]>>

distance_squared(a, b) ==
    (a[1] - b[1]) * (a[1] - b[1]) + (a[2] - b[2]) * (a[2] - b[2])
        + (a[3] - b[3]) * (a[3] - b[3])

I32_MAX == (1073741823 * 2) + 1

\* The chunks of a set that lie in the tracked row.
Row(S) == {c \in S : c[2] = 0 /\ c[3] = 0}

\* Rust's `as` conversion of a quotient: truncation toward zero.
TruncDiv(a, b) == IF a >= 0 THEN a \div b ELSE -((-a) \div b)

\* ((pos - 16.0) * (1.0 / 32.0)).as_ivec3() on integer coordinates.
world_to_chunk(pos) ==
    <<TruncDiv(pos[1] - 16, 32), TruncDiv(pos[2] - 16, 32), TruncDiv(pos[3] - 16, 32)>>

\* The box a scanner desires: (-r..r) x (-v_r..v_r) x (-r..r) around center,
\* with r = horizontal_radius + 1 and v_r = vertical_radius + 1.
iter_chunks_around(center, horizontal_radius, vertical_radius) ==
    LET r == horizontal_radius + 1
        v_r == vertical_radius + 1
    IN  {VecAdd(<<x, y, z>>, center) :
            x \in (-r)..(r - 1), y \in (-v_r)..(v_r - 1), z \in (-r)..(r - 1)}

SeqToSet(s) == {s[i] : i \in DOMAIN s}

\* Maps (HashMap, component storage) are functions on their set of keys.
EmptyMap == [k \in {} |-> k]

MapInsert(m, k, v) == [x \in DOMAIN m \cup {k} |-> IF x = k THEN v ELSE m[x]]

MapRemove(m, ks) == [x \in DOMAIN m \ ks |-> m[x]]

\* Sequences as Vec / IndexSet -------------------------------------------

\* All orders in which the elements of a set may be iterated.
RECURSIVE Orders(_)
Orders(S) ==
    IF S = {} THEN {<<>>}
    ELSE UNION {{<<x>> \o o : o \in Orders(S \ {x})} : x \in S}

\* IndexSet::extend: the new elements are appended in order, known ones kept.
RECURSIVE Extend(_, _)
Extend(q, s) ==
    IF s = <<>> THEN q
    ELSE Extend(IF Head(s) \in SeqToSet(q) THEN q ELSE Append(q, Head(s)), Tail(s))

IndexOf(q, x) == CHOOSE i \in DOMAIN q : q[i] = x

\* IndexSet::swap_remove: the last element takes the place of the removed one.
swap_remove(q, x) ==
    IF x \notin SeqToSet(q) THEN q
    ELSE LET i == IndexOf(q, x)
             n == Len(q)
         IN  SubSeq([q EXCEPT ![i] = q[n]], 1, n - 1)

\* sort_by_cached_key: a stable sort by ascending key; k maps elements to keys.
InsertStable(sorted, x, k) ==
    LET n == Cardinality({i \in DOMAIN sorted : k[sorted[i]] <= k[x]})
    IN  SubSeq(sorted, 1, n) \o <<x>> \o SubSeq(sorted, n + 1, Len(sorted))

RECURSIVE sort_by_cached_key(_, _)
sort_by_cached_key(q, k) ==
    IF q = <<>> THEN <<>>
    ELSE CHOOSE sorted \in {InsertStable(front, q[Len(q)], k) :
                               front \in {sort_by_cached_key(SubSeq(q, 1, Len(q) - 1), k)}} : TRUE

\* Number of copies of e in bag B (0 when absent).
Copies(B, e) == IF e \in DOMAIN B THEN B[e] ELSE 0

\* ------------------------------------------------------------------------
\* Chunk data
\* ------------------------------------------------------------------------

CHUNK_SIZE == 32

CHUNK_SIZE3 == CHUNK_SIZE * CHUNK_SIZE * CHUNK_SIZE

\* ChunkData.voxels is kept as its length, the value every unwritten entry
\* holds (fill says whether that value is one block or the noise terrain) and
\* the entries written since.
UniformChunk(b) == [len |-> 1, fill |-> "block", block |-> b, writes |-> EmptyMap]

NoiseChunk == [len |-> CHUNK_SIZE3, fill |-> "noise", block |-> 0, writes |-> EmptyMap]

\* generate(chunk_pos): uniform air above the height limit, uniform grass
\* below it, noise-shaped terrain in between.
generate(chunk_pos) ==
    LET chunk_height_limit == 3
    IN  IF chunk_pos[2] > chunk_height_limit THEN UniformChunk(0)
        ELSE IF chunk_pos[2] < -chunk_height_limit THEN UniformChunk(2)
        ELSE NoiseChunk

\* A get_block that indexes the vector whatever its length: an index past
\* the end of a one-entry vector is out of bounds.
get_block_unchecked(cd, index) ==
    IF index \in DOMAIN cd.writes THEN cd.writes[index]
    ELSE IF index < cd.len THEN cd.block ELSE -1

\* ChunkData::get_block: a one-entry vector answers every index with its
\* entry.  Only chunks filled with one block are read here; the blocks of the
\* noise terrain are not modelled.
get_block(cd, index) ==
    IF cd.len = 1 THEN cd.block
    ELSE IF index \in DOMAIN cd.writes THEN cd.writes[index] ELSE cd.block

\* index_to_ivec3 and index_to_ivec3_bounds, on indices that are not negative
\* (there Rust's truncating / and % are \div and %)
index_to_ivec3(i) == <<i % 32, (i \div 32) % 32, i \div (32 * 32)>>

\* index_to_ivec3_bounds_reverse: x and z change places
index_to_ivec3_bounds_reverse(i, bounds) ==
    <<i \div (bounds * bounds), (i \div bounds) % bounds, i % bounds>>

index_to_ivec3_bounds(i, bounds) ==
    <<i % bounds, (i \div bounds) % bounds, i \div (bounds * bounds)>>

\* A u32 is the set of the positions of its one bits, so that all 32 bits
\* fit, | is \cup and & is \cap: as-casts from and to a (two's complement)
\* i32, << and >>
Bits(n) == {k \in 0..30 : (n \div 2 ^ k) % 2 = 1}

as_u32(i) == IF i >= 0 THEN Bits(i) ELSE (0..31) \ Bits(-(i + 1))

RECURSIVE Sum2(_)
Sum2(bits) ==
    IF bits = {} THEN 0
    ELSE LET k == CHOOSE k \in bits : TRUE IN 2 ^ k + Sum2(bits \ {k})

as_i32(u) == IF 31 \in u THEN -(Sum2((0..30) \ u)) - 1 ELSE Sum2(u)

Shl(u, n) == {k + n : k \in {j \in u : j + n < 32}}

Shr(u, n) == {k - n : k \in {j \in u : j >= n}}

\* A vertex layout whose ao field starts one bit early, inside the position
make_vertex_u32_overlapping(pos, ao, normal, block_type) ==
    as_u32(pos[1])
        \cup Shl(as_u32(pos[2]), 6)
        \cup Shl(as_u32(pos[3]), 12)
        \cup Shl(as_u32(ao), 17)
        \cup Shl(as_u32(normal), 21)
        \cup Shl(as_u32(block_type), 24)

\* make_vertex_u32: position 6 bits each, ao 3 bits, normal 3 bits, block
\* type 8 bits
make_vertex_u32(pos, ao, normal, block_type) ==
    as_u32(pos[1])
        \cup Shl(as_u32(pos[2]), 6)
        \cup Shl(as_u32(pos[3]), 12)
        \cup Shl(as_u32(ao), 18)
        \cup Shl(as_u32(normal), 21)
        \cup Shl(as_u32(block_type), 24)

x_positive_bits(bits) == as_u32(as_i32(Shl(as_u32(1), bits)) - 1)

get_pos_from_vertex_u32(vertex) ==
    << as_i32(vertex \cap x_positive_bits(6)),
       as_i32(Shr(vertex, 6) \cap x_positive_bits(6)),
       as_i32(Shr(vertex, 12) \cap x_positive_bits(6)) >>

\* ------------------------------------------------------------------------
\* Block registry (voxel.rs)
\* ------------------------------------------------------------------------

\* BlockRegistry::default()
BlockRegistry_default ==
    [ block_string_identifier_to_id |-> EmptyMap,
      block_id_to_string_identifier |-> <<>>,
      block_flags |-> <<>>,
      block_color |-> <<>> ]

\* BlockRegistry::add_block: the new id is the length of the identifier
\* vector; the identifier and the flags are pushed, the colour is not
add_block(registry, identifier, block) ==
    LET visible == CASE block.visibility = "Solid" -> {"SOLID"}
                     [] block.visibility = "Transparent" -> {"TRANSPARENT"}
                     [] OTHER -> {}
        flags == IF block.collision THEN visible \cup {"COLLISION"} ELSE visible
        block_id == Len(registry.block_id_to_string_identifier)
    IN  [ registry EXCEPT
            !.block_id_to_string_identifier = Append(@, identifier),
            !.block_flags = Append(@, flags),
            !.block_string_identifier_to_id = MapInsert(@, identifier, block_id) ]

\* Block::default()
Block_default == [visibility |-> "Solid", collision |-> TRUE, color |-> "magenta"]

load_block_registry ==
    LET air == [Block_default EXCEPT !.visibility = "Invisible", !.collision = FALSE]
        dirt == [Block_default EXCEPT !.color = "green"]
        grass == [Block_default EXCEPT !.color = "olive"]
    IN  add_block(add_block(add_block(BlockRegistry_default, "air", air), "dirt", dirt),
                  "grass", grass)

\* A library call: not yet made, returned with a value, or panicked
NoCall == [fn |-> "none", args |-> <<>>, result |-> <<>>, panic |-> FALSE]

Returned(fn, args, value) == [fn |-> fn, args |-> args, result |-> <<value>>, panic |-> FALSE]

Panicked(fn, args) == [fn |-> fn, args |-> args, result |-> <<>>, panic |-> TRUE]

\* BlockRegistry::has_flag (is_solid is has_flag of SOLID): block_flags is
\* indexed by the id, which panics past the end of the vector
has_flag(fn, registry, block_id, flag) ==
    IF block_id < Len(registry.block_flags)
    THEN Returned(fn, <<block_id, flag>>, flag \in registry.block_flags[block_id + 1])
    ELSE Panicked(fn, <<block_id, flag>>)

is_solid(registry, block_id) == has_flag("is_solid", registry, block_id, "SOLID")

\* ------------------------------------------------------------------------
\* Noise downsamplers (chunk.rs)
\* ------------------------------------------------------------------------

\* >> and << of an i32 by the upsampling
ShiftRight(i, upsampling) == i \div 2 ^ upsampling

ShiftLeft(i, upsampling) == i * 2 ^ upsampling

\* An f32 computed from samples is kept as the weight that each sample has
\* in it: the sample noise(p) * scale is named by its world point p, the 0.0
\* of an entry that was never written by <<>>, and the weights are counted
\* in units of 1 / unit.  Terms of weight zero add nothing to a sum of
\* finite samples.
RECURSIVE Weight(_, _)
Weight(terms, sample) ==
    IF terms = <<>> THEN 0
    ELSE (IF Head(terms)[2] = sample THEN Head(terms)[1] ELSE 0) + Weight(Tail(terms), sample)

WeightedSum(terms, unit) ==
    LET weighted == {terms[i][2] : i \in {j \in DOMAIN terms : Weight(terms, terms[j][2]) # 0}}
    IN  [weights |-> [sample \in weighted |-> Weight(terms, sample)], unit |-> unit]

\* A bilinear interpolation that takes alpha for 1 - alpha
bilinear_interpolation_mirrored(alpha, beta, one, x00, x10, x01, x11) ==
    WeightedSum(<< <<alpha * (one - beta), x00>>,
                   <<(one - alpha) * (one - beta), x10>>,
                   <<alpha * beta, x01>>,
                   <<(one - alpha) * beta, x11>> >>, one * one)

\* bilinear_interpolation, with alpha and beta in units of 1 / one
bilinear_interpolation(alpha, beta, one, x00, x10, x01, x11) ==
    WeightedSum(<< <<(one - alpha) * (one - beta), x00>>,
                   <<alpha * (one - beta), x10>>,
                   <<(one - alpha) * beta, x01>>,
                   <<alpha * beta, x11>> >>, one * one)

trilinear_interpolation(alpha, beta, gamma, one, x000, x100, x010, x110, x001, x101, x011, x111) ==
    WeightedSum(<< <<(one - alpha) * (one - beta) * (one - gamma), x000>>,
                   <<alpha * (one - beta) * (one - gamma), x100>>,
                   <<(one - alpha) * beta * (one - gamma), x010>>,
                   <<alpha * beta * (one - gamma), x110>>,
                   <<(one - alpha) * (one - beta) * gamma, x001>>,
                   <<alpha * (one - beta) * gamma, x101>>,
                   <<(one - alpha) * beta * gamma, x011>>,
                   <<alpha * beta * gamma, x111>> >>, one * one * one)

\* NoiseDownSampler2D::new.  max_point is kept to tell which entries of
\* samples the two loops wrote; samples itself is read through Sample2D.
NoiseDownSampler2D_new(upsampling, chunk_origin) ==
    LET min_point == [a \in 1..2 |-> ShiftRight(chunk_origin[a], upsampling)]
        max_point == [a \in 1..2 |-> ShiftRight(chunk_origin[a] + CHUNK_SIZE, upsampling) + 1]
        edge_length == max_point[1] - min_point[1]
    IN  [ upsampling |-> upsampling, min_point |-> min_point, max_point |-> max_point,
          edge_length |-> edge_length, len |-> edge_length * edge_length ]

\* samples[index] after new: row index \div edge_length, column index %
\* edge_length
Sample2D(sampler, index) ==
    LET x == index % sampler.edge_length
        z == index \div sampler.edge_length
    IN  IF z < sampler.max_point[2] - sampler.min_point[2]
        THEN << ShiftLeft(sampler.min_point[1] + x, sampler.upsampling),
                ShiftLeft(sampler.min_point[2] + z, sampler.upsampling) >>
        ELSE <<>>

NoiseDownSampler2D_get_noise(sampler, world_pos) ==
    LET world_sample_point == [a \in 1..2 |-> ShiftRight(world_pos[a], sampler.upsampling)]
        local_sample_point == [a \in 1..2 |-> world_sample_point[a] - sampler.min_point[a]]
        index == local_sample_point[1] + local_sample_point[2] * sampler.edge_length
        reads == {index, index + 1, index + sampler.edge_length, index + sampler.edge_length + 1}
        sample_point == [a \in 1..2 |->
                            world_pos[a] - ShiftLeft(world_sample_point[a], sampler.upsampling)]
        args == <<"2D", sampler, world_pos>>
    IN  IF ~(reads \subseteq 0..(sampler.len - 1)) THEN Panicked("get_noise", args)
        ELSE Returned("get_noise", args,
                 bilinear_interpolation(sample_point[1], sample_point[2],
                     ShiftLeft(1, sampler.upsampling),
                     Sample2D(sampler, index),
                     Sample2D(sampler, index + 1),
                     Sample2D(sampler, index + sampler.edge_length),
                     Sample2D(sampler, index + sampler.edge_length + 1)))

\* NoiseDownSampler3D::new; buffer is ZERO for None
NoiseDownSampler3D_new(upsampling, chunk_origin, buffer) ==
    LET min_point == [a \in 1..3 |-> ShiftRight(chunk_origin[a] - buffer[a], upsampling)]
        max_point == [a \in 1..3 |->
                         ShiftRight(chunk_origin[a] + CHUNK_SIZE + buffer[a], upsampling) + 1]
        edge_length == [a \in 1..3 |-> max_point[a] - min_point[a]]
    IN  [ upsampling |-> upsampling, min_point |-> min_point, max_point |-> max_point,
          edge_length |-> edge_length,
          len |-> edge_length[1] * edge_length[2] * edge_length[3] ]

\* samples[index] after new: x runs fastest, then z, then y
Sample3D(sampler, index) ==
    LET x == index % sampler.edge_length[1]
        z == (index \div sampler.edge_length[1]) % sampler.edge_length[3]
        y == index \div (sampler.edge_length[1] * sampler.edge_length[3])
    IN  << ShiftLeft(sampler.min_point[1] + x, sampler.upsampling),
           ShiftLeft(sampler.min_point[2] + y, sampler.upsampling),
           ShiftLeft(sampler.min_point[3] + z, sampler.upsampling) >>

NoiseDownSampler3D_get_noise(sampler, world_pos) ==
    LET world_sample_point == [a \in 1..3 |-> ShiftRight(world_pos[a], sampler.upsampling)]
        local_sample_point == [a \in 1..3 |-> world_sample_point[a] - sampler.min_point[a]]
        index == local_sample_point[1] + local_sample_point[3] * sampler.edge_length[1]
                 + local_sample_point[2] * sampler.edge_length[1] * sampler.edge_length[3]
        layer_offset == sampler.edge_length[1] * sampler.edge_length[3]
        row == sampler.edge_length[1]
        reads == {index, index + 1, index + row, index + row + 1,
                  index + layer_offset, index + 1 + layer_offset,
                  index + row + layer_offset, index + row + 1 + layer_offset}
        sample_point == [a \in 1..3 |->
                            world_pos[a] - ShiftLeft(world_sample_point[a], sampler.upsampling)]
        args == <<"3D", sampler, world_pos>>
    IN  IF ~(reads \subseteq 0..(sampler.len - 1)) THEN Panicked("get_noise", args)
        ELSE Returned("get_noise", args,
                 trilinear_interpolation(sample_point[1], sample_point[3], sample_point[2],
                     ShiftLeft(1, sampler.upsampling),
                     Sample3D(sampler, index),
                     Sample3D(sampler, index + 1),
                     Sample3D(sampler, index + row),
                     Sample3D(sampler, index + row + 1),
                     Sample3D(sampler, index + layer_offset),
                     Sample3D(sampler, index + 1 + layer_offset),
                     Sample3D(sampler, index + row + layer_offset),
                     Sample3D(sampler, index + row + 1 + layer_offset)))

vec3_to_index(pos, bounds) ==
    LET x_i == pos[1] % bounds
        y_i == pos[2] * bounds
        z_i == pos[3] * (bounds * bounds)
    IN  x_i + y_i + z_i

get_edging_chunk(pos) ==
    LET dir(v) == IF v = 0 THEN -1 ELSE IF v = 31 THEN 1 ELSE 0
        chunk_dir == <<dir(pos[1]), dir(pos[2]), dir(pos[3])>>
    IN  IF chunk_dir = ZERO THEN {} ELSE {chunk_dir}

Resized_kept(cd) == cd

\* Vec::resize(CHUNK_SIZE3, value) of a one-entry voxel vector
Resized(cd) == IF cd.len = 1 THEN [cd EXCEPT !.len = CHUNK_SIZE3] ELSE cd

\* One ChunkModification(local_pos, block_type) applied to a chunk
ApplyModification(cd, m) ==
    LET i == vec3_to_index(m.local_pos, CHUNK_SIZE)
        new_chunk_data == Resized(cd)
    IN  [new_chunk_data EXCEPT !.writes = MapInsert(@, i, m.block_type)]

RECURSIVE ApplyBatch(_, _)
ApplyBatch(cd, mods) ==
    IF mods = <<>> THEN cd ELSE ApplyBatch(ApplyModification(cd, Head(mods)), Tail(mods))

\* The neighbours a batch marks through get_edging_chunk
EdgingChunks(pos, mods) ==
    UNION {{VecAdd(pos, d) : d \in get_edging_chunk(mods[i].local_pos)} : i \in DOMAIN mods}

\* ADJACENT_CHUNK_DIRECTIONS: the offsets {-1, 0, 1}^3, of which the tracked
\* row holds three.
ADJACENT_CHUNK_DIRECTIONS ==
    Row({<<x, y, z>> : x \in {-1, 0, 1}, y \in {-1, 0, 1}, z \in {-1, 0, 1}})

\* ChunksRefs::try_new: shared handles to the chunks around the middle chunk,
\* none when one of them is missing.
ChunksRefs_try_new(wd, middle_chunk) ==
    IF \A dir \in ADJACENT_CHUNK_DIRECTIONS : VecAdd(middle_chunk, dir) \in DOMAIN wd
    THEN {[dir \in ADJACENT_CHUNK_DIRECTIONS |-> wd[VecAdd(middle_chunk, dir)]]}
    ELSE {}

\* Batches modify_current_terrain may submit: edits inside the chunk, on its
\* -x face, and on the edge where the +x and +y faces meet.
Interior == [local_pos |-> <<5, 5, 5>>, block_type |-> 0]

OnLowX == [local_pos |-> <<0, 5, 5>>, block_type |-> 0]

OnHighXY == [local_pos |-> <<31, 31, 5>>, block_type |-> 0]

Batches == {<<Interior>>, <<OnLowX>>, <<OnLowX, OnHighXY>>}

\* Chunks a batch may be addressed to.
BatchChunks == {<<0, 0, 0>>, <<1, 0, 0>>}

USIZE_MAX == (1073741823 * 2) + 1

\* ------------------------------------------------------------------------
\* State
\* ------------------------------------------------------------------------

VARIABLES
    systems,            \* the systems of the App's schedules that are followed
    overflow_checks,    \* whether the build panics on integer overflow
    block_registry,     \* the BlockRegistry behind BlockRegistryResource
    call,               \* the library function under evaluation: its name, its
                        \* arguments and, once it has returned, its result
    panicked,           \* a system panicked: the App is gone
    ran,                \* systems that have run in the current frame ({} between frames)
    translation,        \* GlobalTransform translation of each spawned entity
    gt_changed,         \* entities whose GlobalTransform changed since update_chunk_pos ran
    chunk_pos,          \* ChunkPos of each entity that has the component
    pos_changed,        \* per channel: entities whose ChunkPos changed since scan<T> ran
    scanner,            \* per channel: Scanner<T> of each entity that has the component
    removed_scanners,   \* per channel: RemovedComponents<Scanner<T>> readable this frame
    scanner_log,        \* per channel, since the last frame ended: whether a Scanner<T> was
                        \* added, whether a scanner's ChunkPos changed, whether a scanner
                        \* moved inside its chunk, and the boxes of the scanners removed
                        \* (history, read by no system)
    global_desired_chunks, \* per channel: GlobalScannerDesiredChunks<T>.chunks
    gained,             \* per channel: ChunkGainedScannerRelevance<T> events of this frame (bag)
    lost,               \* per channel: ChunkLostScannerRelevance<T> events of this frame (bag)
    net_relevance,      \* per channel: gained minus lost events per chunk, over the run
    world_data,         \* VoxelEngine.world_data
    load_data_queue,    \* VoxelEngine.load_data_queue
    data_tasks,         \* keys of VoxelEngine.data_tasks (the task of C computes generate(C))
    chunk_modifications, \* VoxelEngine.chunk_modifications
    batches,            \* number of batches submitted so far
    chunk_generated,    \* ChunkGenerated events of this frame (bag)
    chunk_unloaded,     \* ChunkUnloaded events of this frame (bag)
    chunk_modified,     \* ChunkModified events of this frame (bag)
    ve_load_mesh_queue, \* VoxelEngine.load_mesh_queue
    ve_mesh_tasks,      \* VoxelEngine.mesh_tasks
    ve_chunk_entities,  \* keys of VoxelEngine.chunk_entities
    mp_load_mesh_queue, \* MeshingPipeline.load_mesh_queue
    mp_mesh_tasks,      \* MeshingPipeline.mesh_tasks
    chunk_mesh_entities, \* keys of ChunkMeshEntities
    mesh_entities,      \* live chunk entities spawned by join_mesh of rendering.rs, per
                        \* chunk (bag)
    mesh_versions       \* per chunk, the ChunksRefs its entity's mesh was built from
                        \* (shown) and those of the task started last for it while it
                        \* has a task or an entity (dispatched)

appVars == <<systems, overflow_checks, block_registry, call>>

observerVars ==
    <<translation, gt_changed, chunk_pos, pos_changed, scanner, removed_scanners, scanner_log>>

relevanceVars == <<global_desired_chunks, gained, lost, net_relevance>>

dataVars == <<world_data, load_data_queue, data_tasks>>

modVars == <<chunk_modifications, batches>>

engineEventVars == <<chunk_generated, chunk_unloaded, chunk_modified>>

veMeshVars == <<ve_load_mesh_queue, ve_mesh_tasks, ve_chunk_entities>>

mpMeshVars == <<mp_load_mesh_queue, mp_mesh_tasks, chunk_mesh_entities, mesh_entities,
               mesh_versions>>

engineVars == <<dataVars, modVars, engineEventVars, veMeshVars, mpMeshVars>>

vars == <<appVars, panicked, ran, observerVars, relevanceVars, engineVars>>

\* ------------------------------------------------------------------------
\* Schedules
\* ------------------------------------------------------------------------

ScannerSystems == {"update_chunk_pos", "scan_data", "scan_mesh"}

EngineDataSystems == {"start_modifications", "join_data", "unload_data", "start_data_tasks"}

EngineMeshSystems == {"ve_join_mesh", "ve_unload_mesh", "ve_start_mesh_tasks"}

RenderingSystems == {"r_join_mesh", "r_unload_mesh", "r_start_mesh_tasks"}

AllSystems == ScannerSystems \cup EngineDataSystems \cup EngineMeshSystems \cup RenderingSystems

UpdateSystems ==
    {"start_modifications", "join_data", "ve_join_mesh", "unload_data", "ve_unload_mesh"}

\* What must have run before a system: the schedules before its own
\* (PreUpdate, then Update, then PostUpdate) and, inside its schedule, the
\* systems its .after and .chain() constraints name; systems that touch
\* disjoint state are put in one fixed order.  start_modifications is ordered
\* against no other Update system.
Requires(sys) ==
    CASE sys = "update_chunk_pos" -> {}
      [] sys = "scan_data" -> {"update_chunk_pos"}
      [] sys = "scan_mesh" -> {"update_chunk_pos", "scan_data"}
      [] sys = "start_modifications" -> ScannerSystems
      [] sys = "join_data" -> ScannerSystems
      [] sys = "ve_join_mesh" -> ScannerSystems \cup {"join_data"}
      [] sys = "unload_data" -> ScannerSystems \cup {"join_data", "ve_join_mesh"}
      [] sys = "ve_unload_mesh" ->
           ScannerSystems \cup {"join_data", "ve_join_mesh", "unload_data"}
      [] sys = "start_data_tasks" -> ScannerSystems \cup UpdateSystems
      [] sys = "ve_start_mesh_tasks" ->
           ScannerSystems \cup UpdateSystems \cup {"start_data_tasks"}
      [] sys = "r_join_mesh" ->
           ScannerSystems \cup UpdateSystems \cup {"start_data_tasks", "ve_start_mesh_tasks"}
      [] sys = "r_unload_mesh" ->
           ScannerSystems \cup UpdateSystems
               \cup {"start_data_tasks", "ve_start_mesh_tasks", "r_join_mesh"}
      [] sys = "r_start_mesh_tasks" ->
           ScannerSystems \cup UpdateSystems
               \cup {"start_data_tasks", "ve_start_mesh_tasks", "r_join_mesh", "r_unload_mesh"}

\* The system is the next to run, and runs.
Runs(sys) ==
    /\ ~panicked
    /\ sys \in systems \ ran
    /\ (Requires(sys) \cap systems) \subseteq ran
    /\ ran' = ran \cup {sys}

Idle == ran = {} /\ ~panicked

\* ------------------------------------------------------------------------
\* Observers and editors (user systems acting between two frames)
\* ------------------------------------------------------------------------

NewScanner(T) ==
    [horizontal_radius |-> ScannerRadius(T), vertical_radius |-> ScannerRadius(T)]

HasScanner(T, e) == e \in DOMAIN scanner[T]

\* Inserting Scanner<T> brings the required TrackChunkPos and ChunkPos; a
\* ChunkPos that was missing is added with its default value.
WithRequiredChunkPos(e) ==
    IF e \in DOMAIN chunk_pos THEN chunk_pos ELSE MapInsert(chunk_pos, e, ZERO)

NewlyTracked(e) == {e} \ DOMAIN chunk_pos

\* The box of chunks the Scanner<T> of entity e desires
ScannerBox(T, e) ==
    Row(iter_chunks_around(chunk_pos[e], scanner[T][e].horizontal_radius,
                           scanner[T][e].vertical_radius))

NoLog == [T \in Channels |-> [added |-> FALSE, moved |-> FALSE, nudged |-> FALSE, removed |-> {}]]

LogAdded(Ts) ==
    [T \in Channels |-> IF T \in Ts THEN [scanner_log[T] EXCEPT !.added = TRUE]
                        ELSE scanner_log[T]]

LogRemoved(e, Ts) ==
    [T \in Channels |->
        IF T \in Ts /\ HasScanner(T, e)
        THEN [scanner_log[T] EXCEPT !.removed = @ \cup ScannerBox(T, e)]
        ELSE scanner_log[T]]

\* commands.spawn((Transform::from_translation(w), Scanner::<T>::new(..), ..))
Spawn(e, w, Ts) ==
    /\ Idle
    /\ e \notin DOMAIN translation
    /\ Ts # {}
    /\ translation' = MapInsert(translation, e, w)
    /\ gt_changed' = gt_changed \cup {e}
    /\ scanner' = [T \in Channels |->
                     IF T \in Ts THEN MapInsert(scanner[T], e, NewScanner(T)) ELSE scanner[T]]
    /\ chunk_pos' = WithRequiredChunkPos(e)
    /\ pos_changed' = [T \in Channels |-> pos_changed[T] \cup {e}]
    /\ scanner_log' = LogAdded(Ts)
    /\ UNCHANGED <<appVars, panicked, ran, removed_scanners, relevanceVars, engineVars>>

\* commands.entity(e).insert(Scanner::<T>::new(..)) on an existing entity
InsertScanner(e, T) ==
    /\ Idle
    /\ e \in DOMAIN translation
    /\ ~HasScanner(T, e)
    /\ scanner' = [scanner EXCEPT ![T] = MapInsert(@, e, NewScanner(T))]
    /\ chunk_pos' = WithRequiredChunkPos(e)
    /\ pos_changed' = [U \in Channels |-> pos_changed[U] \cup NewlyTracked(e)]
    /\ scanner_log' = LogAdded({T})
    /\ UNCHANGED <<appVars, panicked, ran, translation, gt_changed, removed_scanners,
                   relevanceVars, engineVars>>

\* commands.entity(e).remove::<Scanner<T>>()
RemoveScanner(e, T) ==
    /\ Idle
    /\ HasScanner(T, e)
    /\ scanner' = [scanner EXCEPT ![T] = MapRemove(@, {e})]
    /\ removed_scanners' = [removed_scanners EXCEPT ![T] = @ \cup {e}]
    /\ scanner_log' = LogRemoved(e, {T})
    /\ UNCHANGED <<appVars, panicked, ran, translation, gt_changed, chunk_pos, pos_changed,
                   relevanceVars, engineVars>>

\* commands.entity(e).despawn()
Despawn(e) ==
    /\ Idle
    /\ e \in DOMAIN translation
    /\ translation' = MapRemove(translation, {e})
    /\ gt_changed' = gt_changed \ {e}
    /\ chunk_pos' = MapRemove(chunk_pos, {e})
    /\ pos_changed' = [T \in Channels |-> pos_changed[T] \ {e}]
    /\ removed_scanners' = [T \in Channels |->
                              IF HasScanner(T, e) THEN removed_scanners[T] \cup {e}
                              ELSE removed_scanners[T]]
    /\ scanner' = [T \in Channels |-> MapRemove(scanner[T], {e})]
    /\ scanner_log' = LogRemoved(e, Channels)
    /\ UNCHANGED <<appVars, panicked, ran, relevanceVars, engineVars>>

\* The observer moves: its GlobalTransform is written.
Move(e, w) ==
    /\ Idle
    /\ e \in DOMAIN translation
    /\ translation[e] # w
    /\ translation' = [translation EXCEPT ![e] = w]
    /\ gt_changed' = gt_changed \cup {e}
    /\ UNCHANGED <<appVars, panicked, ran, chunk_pos, pos_changed, scanner, removed_scanners,
                   scanner_log, relevanceVars, engineVars>>

\* modify_current_terrain: voxel_engine.chunk_modifications.insert(chunk, mods)
Modify(pos, mods) ==
    /\ Idle
    /\ "start_modifications" \in systems
    /\ batches < MaxBatches
    /\ batches' = batches + 1
    /\ chunk_modifications' = MapInsert(chunk_modifications, pos, mods)
    /\ UNCHANGED <<appVars, panicked, ran, observerVars, relevanceVars, dataVars,
                   engineEventVars, veMeshVars, mpMeshVars>>

\* ------------------------------------------------------------------------
\* PreUpdate: update_chunk_pos, scan::<DataScanner>, scan::<MeshScanner>
\* ------------------------------------------------------------------------

\* A ChunkPos written with set rather than set_if_neq is flagged as changed
\* whenever its entity is visited.
set_always(visited, moved) == visited

\* Mut::set_if_neq flags the ChunkPos of the visited entities whose value
\* differs from the one written.
set_if_neq(visited, moved) == moved

\* run_if(any_with_component::<TrackChunkPos>); the query visits every entity
\* with a ChunkPos whose GlobalTransform changed since the system last ran.
update_chunk_pos ==
    /\ Runs("update_chunk_pos")
    /\ IF DOMAIN chunk_pos # {}
       THEN LET visited == gt_changed \cap DOMAIN chunk_pos
                moved == {e \in visited : chunk_pos[e] # world_to_chunk(translation[e])}
            IN  /\ chunk_pos' = [e \in DOMAIN chunk_pos |->
                                   IF e \in moved THEN world_to_chunk(translation[e])
                                   ELSE chunk_pos[e]]
                /\ pos_changed' =
                     [T \in Channels |-> pos_changed[T] \cup set_if_neq(visited, moved)]
                /\ gt_changed' = {}
                /\ scanner_log' =
                     [T \in Channels |->
                        [scanner_log[T] EXCEPT
                           !.moved = @ \/ (moved \cap DOMAIN scanner[T] # {}),
                           !.nudged = @ \/ ((visited \ moved) \cap DOMAIN scanner[T] # {})]]
       ELSE UNCHANGED <<chunk_pos, pos_changed, gt_changed, scanner_log>>
    /\ UNCHANGED <<appVars, panicked, translation, scanner, removed_scanners,
                   relevanceVars, engineVars>>

Scanners(T) == DOMAIN scanner[T]

\* current_desired_chunks after the "Filling globally desired chunks" block
current_desired_chunks(T) ==
    Row(UNION {iter_chunks_around(chunk_pos[e], scanner[T][e].horizontal_radius,
                                  scanner[T][e].vertical_radius) : e \in Scanners(T)})

\* any_changed_query: entities With<Scanner<T>> and Changed<ChunkPos>
any_changed_query(T) == pos_changed[T] \cap Scanners(T)

\* A pass that sent the events of every scanner's own box, one after another.
newly_desired_events_per_scanner(T) ==
    LET box(e) == Row(iter_chunks_around(chunk_pos[e], scanner[T][e].horizontal_radius,
                                         scanner[T][e].vertical_radius))
        fresh == current_desired_chunks(T) \ global_desired_chunks[T]
    IN  [c \in fresh |-> Cardinality({e \in Scanners(T) : c \in box(e)})]

\* The events a pass sends: one per chunk of each set difference.
newly_desired_events(T) == SetToBag(current_desired_chunks(T) \ global_desired_chunks[T])

\* A pass that sent a lost event for every chunk desired before it.
no_longer_desired_events_all(T) == SetToBag(global_desired_chunks[T])

no_longer_desired_events(T) == SetToBag(global_desired_chunks[T] \ current_desired_chunks(T))

\* Running count of gained minus lost events per chunk, zero entries dropped.
NetAfter(net, G, L) ==
    LET cs == DOMAIN net \cup DOMAIN G \cup DOMAIN L
        val(c) == Copies(net, c) + Copies(G, c) - Copies(L, c)
    IN  [c \in {d \in cs : val(d) # 0} |-> val(c)]

\* An early return that looks at Changed<ChunkPos> only
ScanPasses_changed_only(T) == any_changed_query(T) # {}

\* Whether scan::<T> gets past its early return
ScanPasses(T) == any_changed_query(T) # {} \/ removed_scanners[T] # {}

\* scan::<T>, with its run condition
\* any_with_component::<Scanner<T>>.or(any_component_removed::<Scanner<T>>)
scan(T, sys) ==
    /\ Runs(sys)
    /\ IF Scanners(T) # {} \/ removed_scanners[T] # {}
       THEN /\ pos_changed' = [pos_changed EXCEPT ![T] = {}]
            /\ IF ~ScanPasses(T)
               THEN UNCHANGED relevanceVars
               ELSE /\ gained' = [gained EXCEPT ![T] = @ (+) newly_desired_events(T)]
                    /\ lost' = [lost EXCEPT ![T] = @ (+) no_longer_desired_events(T)]
                    /\ net_relevance' =
                         [net_relevance EXCEPT ![T] =
                            NetAfter(@, newly_desired_events(T), no_longer_desired_events(T))]
                    /\ global_desired_chunks' =
                         [global_desired_chunks EXCEPT ![T] = current_desired_chunks(T)]
       ELSE UNCHANGED <<pos_changed, relevanceVars>>
    /\ UNCHANGED <<appVars, panicked, translation, gt_changed, chunk_pos, scanner,
                   removed_scanners, scanner_log, engineVars>>

scan_data == scan("Data", "scan_data")

scan_mesh == scan("Mesh", "scan_mesh")

\* ------------------------------------------------------------------------
\* Generation pipeline (voxel_engine.rs)
\* ------------------------------------------------------------------------

\* The sort key of the queues: squared distance to the closest scanner of
\* the channel, i32::MAX without any.
closest_distance(pos, T) ==
    LET ds == {distance_squared(pos, chunk_pos[e]) : e \in Scanners(T)}
    IN  IF ds = {} THEN I32_MAX ELSE CHOOSE d \in ds : \A o \in ds : d <= o

DataKeys(q) == [c \in SeqToSet(q) |-> closest_distance(c, "Data")]

MeshKeys(q) == [c \in SeqToSet(q) |-> -closest_distance(c, "Mesh")]

\* The queue start_data_tasks dispatches from, the events being read in the
\* order `read`.
SortedDataQueue(read) ==
    IF gained["Data"] = EmptyBag THEN load_data_queue
    ELSE LET extended == Extend(load_data_queue, read)
         IN  sort_by_cached_key(extended, DataKeys(extended))

\* A dispatcher that takes the whole queue.
data_tasks_left_uncapped(queue) == Len(queue)

\* MAX_DATA_TASKS.saturating_sub(data_tasks.len()).min(load_data_queue.len())
data_tasks_left(queue) ==
    LET free == IF MAX_DATA_TASKS >= Cardinality(data_tasks)
                THEN MAX_DATA_TASKS - Cardinality(data_tasks) ELSE 0
    IN  IF free <= Len(queue) THEN free ELSE Len(queue)

start_data_tasks ==
    /\ Runs("start_data_tasks")
    /\ \E read \in Orders(DOMAIN gained["Data"]) :
         \E queue \in {SortedDataQueue(read)} :
         \E tasks_left \in {data_tasks_left(queue)} :
             /\ data_tasks' = data_tasks \cup {queue[i] : i \in 1..tasks_left}
             /\ load_data_queue' = SubSeq(queue, tasks_left + 1, Len(queue))
    /\ UNCHANGED <<appVars, panicked, observerVars, relevanceVars, world_data, modVars,
                   engineEventVars, veMeshVars, mpMeshVars>>

\* An unload loop that leaves the queue alone.
RemoveNone(q, order) == q

\* load_data_queue.swap_remove(&chunk_pos) for every drained chunk_pos
RECURSIVE RemoveAll(_, _)
RemoveAll(q, order) ==
    IF order = <<>> THEN q ELSE RemoveAll(swap_remove(q, Head(order)), Tail(order))

unload_data ==
    /\ Runs("unload_data")
    /\ chunk_unloaded' = chunk_unloaded (+) lost["Data"]
    /\ \E unload_data_queue \in Orders(DOMAIN lost["Data"]) :
         load_data_queue' = RemoveAll(load_data_queue, unload_data_queue)
    /\ world_data' = MapRemove(world_data, DOMAIN lost["Data"])
    /\ UNCHANGED <<appVars, panicked, observerVars, relevanceVars, data_tasks, modVars,
                   chunk_generated, chunk_modified, veMeshVars, mpMeshVars>>

\* A retain that drops no task
retain_every_task(tasks, finished) == tasks

\* data_tasks.retain(|_k, op| op.is_some()): the tasks that were joined are
\* dropped, the pending ones were put back.
retain_pending(tasks, finished) == tasks \ finished

\* join_data when poll_once returns the result of exactly the tasks of
\* finished.
join_data_polled(finished) ==
    /\ Runs("join_data")
    /\ world_data' = [c \in DOMAIN world_data \cup finished |->
                        IF c \in finished THEN generate(c) ELSE world_data[c]]
    /\ chunk_generated' = chunk_generated (+) SetToBag(finished)
    /\ data_tasks' = retain_pending(data_tasks, finished)
    /\ UNCHANGED <<appVars, panicked, observerVars, relevanceVars, load_data_queue, modVars,
                   chunk_unloaded, chunk_modified, veMeshVars, mpMeshVars>>

\* Every task whose poll_once returns its result is joined.
join_data == \E finished \in SUBSET data_tasks : join_data_polled(finished)

\* ------------------------------------------------------------------------
\* Modification dispatcher (voxel_engine.rs)
\* ------------------------------------------------------------------------

\* A dispatcher that takes every batch for applied
Applied_every_batch == DOMAIN chunk_modifications

\* Batches whose chunk is in world_data are applied, the others dropped.
Applied == DOMAIN chunk_modifications \cap DOMAIN world_data

updated_and_adjecant_chunks_set ==
    Row(UNION {EdgingChunks(pos, chunk_modifications[pos]) \cup {pos} : pos \in Applied})

\* A write through the handle without making it unique: every ChunksRefs
\* handle that points at the data world_data held sees the modified data.
Arc_get_mut_unchecked(tasks, wd, new_wd) ==
    [i \in DOMAIN tasks |->
        [tasks[i] EXCEPT !.chunks_refs =
            [dir \in DOMAIN @ |->
                LET c == VecAdd(tasks[i].pos, dir)
                IN  IF c \in DOMAIN wd /\ @[dir] = wd[c] THEN new_wd[c] ELSE @[dir]]]]

\* Arc::make_mut(chunk_data): a handle that mesh tasks share is replaced in
\* world_data by a handle to a copy before the write, so the handles the
\* tasks hold keep the data they were cloned from; a handle nobody shares is
\* written in place.
Arc_make_mut(tasks, wd, new_wd) == tasks

start_modifications ==
    /\ Runs("start_modifications")
    /\ world_data' = [c \in DOMAIN world_data |->
                        IF c \in Applied THEN ApplyBatch(world_data[c], chunk_modifications[c])
                        ELSE world_data[c]]
    /\ chunk_modified' = chunk_modified (+) SetToBag(Applied)
    /\ chunk_modifications' = EmptyMap
    /\ \E drained \in Orders(updated_and_adjecant_chunks_set) :
         ve_load_mesh_queue' = Extend(ve_load_mesh_queue, drained)
    /\ ve_mesh_tasks' = Arc_make_mut(ve_mesh_tasks, world_data, world_data')
    /\ mp_mesh_tasks' = Arc_make_mut(mp_mesh_tasks, world_data, world_data')
    /\ UNCHANGED <<appVars, panicked, observerVars, relevanceVars, load_data_queue, data_tasks,
                   batches, chunk_generated, chunk_unloaded, ve_chunk_entities,
                   mp_load_mesh_queue, chunk_mesh_entities, mesh_entities, mesh_versions>>

\* ------------------------------------------------------------------------
\* Mesh systems: MeshingPipeline (rendering.rs) and VoxelEngine (voxel_engine.rs)
\* ------------------------------------------------------------------------

all_neighbors_available(world_pos) ==
    \A dir \in ADJACENT_CHUNK_DIRECTIONS : VecAdd(world_pos, dir) \in DOMAIN world_data

\* task_pool.spawn(.. build_chunk_mesh(&chunks_refs, ..) ..)
MeshTaskFor(world_pos, chunks_refs) == [pos |-> world_pos, chunks_refs |-> chunks_refs]

RECURSIVE SelectIn(_, _)
SelectIn(s, S) ==
    IF s = <<>> THEN <<>>
    ELSE (IF Head(s) \in S THEN <<Head(s)>> ELSE <<>>) \o SelectIn(Tail(s), S)

\* The queue after the "Order by FURTHEST distance" block of rendering.rs
r_sorted_queue(read_gained, read_modified) ==
    IF gained["Mesh"] = EmptyBag /\ chunk_modified = EmptyBag THEN mp_load_mesh_queue
    ELSE LET with_gained == Extend(mp_load_mesh_queue, read_gained)
             extended == Extend(with_gained,
                                SelectIn(read_modified, global_desired_chunks["Mesh"]))
         IN  sort_by_cached_key(extended, MeshKeys(extended))

\* A dispatch loop that takes the chunks from the end of the queue without
\* looking at their neighbours.
RECURSIVE r_dispatch_unchecked(_, _, _, _)
r_dispatch_unchecked(limit, queue, i, tasks) ==
    IF ~(i > 0 /\ Len(tasks) < limit) THEN [queue |-> queue, tasks |-> tasks]
    ELSE r_dispatch_unchecked(limit, swap_remove(queue, queue[i]), i - 1,
                              Append(tasks, MeshTaskFor(queue[i], EmptyMap)))

\* A dispatch loop that stops only at the front of the queue.
RECURSIVE r_dispatch_uncapped(_, _, _, _)
r_dispatch_uncapped(limit, queue, i, tasks) ==
    IF i = 0 THEN [queue |-> queue, tasks |-> tasks]
    ELSE IF ~all_neighbors_available(queue[i])
         THEN r_dispatch_uncapped(limit, queue, i - 1, tasks)
    ELSE r_dispatch_uncapped(limit, swap_remove(queue, queue[i]), i - 1,
                             Append(tasks, MeshTaskFor(queue[i], EmptyMap)))

\* The dispatch loop of rendering.rs, from index i down, where limit is the
\* value of MAX_MESH_TASKS
RECURSIVE r_dispatch(_, _, _, _)
r_dispatch(limit, queue, i, tasks) ==
    IF ~(i > 0 /\ Len(tasks) < limit) THEN [queue |-> queue, tasks |-> tasks]
    ELSE LET world_pos == queue[i]
         IN  IF ~all_neighbors_available(world_pos) THEN r_dispatch(limit, queue, i - 1, tasks)
             ELSE LET removed == swap_remove(queue, world_pos)
                      refs == ChunksRefs_try_new(world_data, world_pos)
                  IN  IF refs = {} THEN r_dispatch(limit, removed, i - 1, tasks)
                      ELSE r_dispatch(limit, removed, i - 1,
                                      Append(tasks, MeshTaskFor(world_pos, CHOOSE r \in refs : TRUE)))

\* The chunks that have a task in flight
InFlight(tasks) == {tasks[i].pos : i \in DOMAIN tasks}

\* mesh_versions once every chunk without a task and without an entity is
\* forgotten
Forget(dispatched, shown, tasks) ==
    [dispatched |-> MapRemove(dispatched, DOMAIN dispatched \ (InFlight(tasks) \cup DOMAIN shown)),
     shown |-> shown]

\* The ChunksRefs of the tasks pushed from index i on, the last push of a
\* chunk over the earlier ones
RECURSIVE PushedRefs(_, _, _)
PushedRefs(dispatched, tasks, i) ==
    IF i > Len(tasks) THEN dispatched
    ELSE PushedRefs(MapInsert(dispatched, tasks[i].pos, tasks[i].chunks_refs), tasks, i + 1)

\* start_mesh_tasks of rendering.rs under the task limit
r_start_mesh_tasks_limited(limit) ==
    /\ Runs("r_start_mesh_tasks")
    /\ \E read_gained \in Orders(DOMAIN gained["Mesh"]),
          read_modified \in Orders(DOMAIN chunk_modified) :
         \E queue \in {r_sorted_queue(read_gained, read_modified)} :
         \E out \in {r_dispatch(limit, queue, Len(queue), mp_mesh_tasks)} :
             /\ mp_load_mesh_queue' = out.queue
             /\ mp_mesh_tasks' = out.tasks
             /\ mesh_versions' =
                  [mesh_versions EXCEPT
                     !.dispatched = PushedRefs(@, out.tasks, Len(mp_mesh_tasks) + 1)]
    /\ UNCHANGED <<appVars, panicked, observerVars, relevanceVars, dataVars, modVars,
                   engineEventVars, veMeshVars, chunk_mesh_entities, mesh_entities>>

r_start_mesh_tasks == r_start_mesh_tasks_limited(MAX_MESH_TASKS)

\* The unload loop shared by both unload_mesh systems: a chunk without an
\* entity is skipped by the let-else.
RECURSIVE unload_loop(_, _, _)
unload_loop(queue, entities, unload_mesh_queue) ==
    IF unload_mesh_queue = <<>> THEN [queue |-> queue, entities |-> entities]
    ELSE LET chunk_pos_ == Head(unload_mesh_queue)
         IN  IF chunk_pos_ \notin entities
             THEN unload_loop(queue, entities, Tail(unload_mesh_queue))
             ELSE unload_loop(swap_remove(queue, chunk_pos_), entities \ {chunk_pos_},
                              Tail(unload_mesh_queue))

\* The chunk entities left by the loop of unload_mesh: the entity that
\* ChunkMeshEntities holds for a lost chunk is despawned.
RECURSIVE unload_despawns(_, _, _)
unload_despawns(entities, live, unload_mesh_queue) ==
    IF unload_mesh_queue = <<>> THEN live
    ELSE LET chunk_pos_ == Head(unload_mesh_queue)
         IN  IF chunk_pos_ \notin entities
             THEN unload_despawns(entities, live, Tail(unload_mesh_queue))
             ELSE unload_despawns(entities \ {chunk_pos_}, live (-) SetToBag({chunk_pos_}),
                                  Tail(unload_mesh_queue))

r_unload_mesh ==
    /\ Runs("r_unload_mesh")
    /\ \E unload_mesh_queue \in Orders(DOMAIN lost["Mesh"]) :
         LET out == unload_loop(mp_load_mesh_queue, chunk_mesh_entities, unload_mesh_queue)
         IN  /\ mp_load_mesh_queue' = out.queue
             /\ chunk_mesh_entities' = out.entities
             /\ mesh_entities' = unload_despawns(chunk_mesh_entities, mesh_entities,
                                                 unload_mesh_queue)
             /\ mesh_versions' =
                  Forget(mesh_versions.dispatched,
                         MapRemove(mesh_versions.shown, chunk_mesh_entities \ out.entities),
                         mp_mesh_tasks)
    /\ UNCHANGED <<appVars, panicked, observerVars, relevanceVars, dataVars, modVars,
                   engineEventVars, veMeshVars, mp_mesh_tasks>>

ve_unload_mesh ==
    /\ Runs("ve_unload_mesh")
    /\ \E unload_mesh_queue \in Orders(DOMAIN lost["Mesh"]) :
         LET out == unload_loop(ve_load_mesh_queue, ve_chunk_entities, unload_mesh_queue)
         IN  /\ ve_load_mesh_queue' = out.queue
             /\ ve_chunk_entities' = out.entities
    /\ UNCHANGED <<appVars, panicked, observerVars, relevanceVars, dataVars, modVars,
                   engineEventVars, ve_mesh_tasks, mpMeshVars>>

\* The join loop shared by both join_mesh systems, over the tasks in order:
\* finished holds the indices whose poll_once returned a MeshTask, produced
\* those of them with an opaque or a transparent mesh.
RECURSIVE join_loop(_, _, _, _, _)
join_loop(tasks, i, entities, finished, produced) ==
    IF i > Len(tasks) THEN entities
    ELSE IF i \notin finished THEN join_loop(tasks, i + 1, entities, finished, produced)
    ELSE LET despawned == entities \ {tasks[i].pos}
             spawned == IF i \in produced THEN despawned \cup {tasks[i].pos} ELSE despawned
         IN  join_loop(tasks, i + 1, spawned, finished, produced)

RECURSIVE Retain(_, _, _)
Retain(tasks, i, finished) ==
    IF i > Len(tasks) THEN <<>>
    ELSE (IF i \in finished THEN <<>> ELSE <<tasks[i]>>) \o Retain(tasks, i + 1, finished)

\* A join that leaves the old chunk entity alive
despawn_skipped(live, entities, world_pos) == live

\* "Despawn the old chunk entity if it exists": the entity removed from
\* ChunkMeshEntities is despawned.
despawn_old(live, entities, world_pos) ==
    IF world_pos \in entities THEN live (-) SetToBag({world_pos}) ELSE live

\* The chunk entities left by the loop of join_mesh (rendering.rs): each
\* joined task despawns the entity its chunk had and spawns one if it has an
\* opaque or a transparent mesh.
RECURSIVE join_spawns(_, _, _, _, _, _)
join_spawns(tasks, i, entities, live, finished, produced) ==
    IF i > Len(tasks) THEN live
    ELSE IF i \notin finished
         THEN join_spawns(tasks, i + 1, entities, live, finished, produced)
    ELSE LET world_pos == tasks[i].pos
             despawned == despawn_old(live, entities, world_pos)
         IN  IF i \in produced
             THEN join_spawns(tasks, i + 1, entities \cup {world_pos},
                              despawned (+) SetToBag({world_pos}), finished, produced)
             ELSE join_spawns(tasks, i + 1, entities \ {world_pos}, despawned,
                              finished, produced)

\* The meshes shown after the loop of join_mesh (rendering.rs): the entity
\* a joined task spawns carries the mesh built from the task's ChunksRefs.
RECURSIVE join_shown(_, _, _, _, _)
join_shown(tasks, i, shown, finished, produced) ==
    IF i > Len(tasks) THEN shown
    ELSE IF i \notin finished THEN join_shown(tasks, i + 1, shown, finished, produced)
    ELSE LET despawned == MapRemove(shown, {tasks[i].pos})
         IN  join_shown(tasks, i + 1,
                        IF i \in produced
                        THEN MapInsert(despawned, tasks[i].pos, tasks[i].chunks_refs)
                        ELSE despawned,
                        finished, produced)

\* join_mesh of rendering.rs when poll_once returns the result of exactly
\* the tasks of finished, those of produced with a mesh.
r_join_mesh_polled(finished, produced) ==
    /\ Runs("r_join_mesh")
    /\ chunk_mesh_entities' =
         join_loop(mp_mesh_tasks, 1, chunk_mesh_entities, finished, produced)
    /\ mesh_entities' =
         join_spawns(mp_mesh_tasks, 1, chunk_mesh_entities, mesh_entities, finished, produced)
    /\ mp_mesh_tasks' = Retain(mp_mesh_tasks, 1, finished)
    /\ mesh_versions' =
         Forget(mesh_versions.dispatched,
                join_shown(mp_mesh_tasks, 1, mesh_versions.shown, finished, produced),
                Retain(mp_mesh_tasks, 1, finished))
    /\ UNCHANGED <<appVars, panicked, observerVars, relevanceVars, dataVars, modVars,
                   engineEventVars, veMeshVars, mp_load_mesh_queue>>

r_join_mesh ==
    \E finished \in SUBSET DOMAIN mp_mesh_tasks :
       \E produced \in SUBSET finished : r_join_mesh_polled(finished, produced)

ve_join_mesh ==
    /\ Runs("ve_join_mesh")
    /\ \E finished \in SUBSET DOMAIN ve_mesh_tasks :
         \E produced \in SUBSET finished :
           /\ ve_chunk_entities' =
                join_loop(ve_mesh_tasks, 1, ve_chunk_entities, finished, produced)
           /\ ve_mesh_tasks' = Retain(ve_mesh_tasks, 1, finished)
    /\ UNCHANGED <<appVars, panicked, observerVars, relevanceVars, dataVars, modVars,
                   engineEventVars, ve_load_mesh_queue, mpMeshVars>>

\* The queue after the "Order by FURTHEST distance" block of voxel_engine.rs
ve_sorted_queue(read_gained) ==
    IF gained["Mesh"] = EmptyBag THEN ve_load_mesh_queue
    ELSE LET extended == Extend(ve_load_mesh_queue, read_gained)
         IN  sort_by_cached_key(extended, MeshKeys(extended))

\* usize subtraction: wraps in a build without overflow checks
UsizeSub(a, b) == IF a >= b THEN a - b ELSE USIZE_MAX - (b - a) + 1

\* The while-let loop of voxel_engine.rs from index i (0-based, as in the
\* code); overflow tells that `i -= 1` went below zero.
RECURSIVE ve_collect(_, _, _, _)
ve_collect(queue, i, chunks_to_generate, tasks_left) ==
    IF i >= Len(queue)
    THEN [queue |-> queue, chunks |-> chunks_to_generate, overflow |-> FALSE]
    ELSE LET world_pos == queue[i + 1]
             ready == all_neighbors_available(world_pos)
             pushed == IF ready THEN Append(chunks_to_generate, world_pos)
                       ELSE chunks_to_generate
             removed == IF ready THEN swap_remove(queue, world_pos) ELSE queue
         IN  IF ready /\ Len(pushed) >= tasks_left
             THEN [queue |-> removed, chunks |-> pushed, overflow |-> FALSE]
             ELSE IF i = 0 /\ overflow_checks
             THEN [queue |-> removed, chunks |-> pushed, overflow |-> TRUE]
             ELSE ve_collect(removed, UsizeSub(i, 1), pushed, tasks_left)

RECURSIVE ve_spawn(_, _)
ve_spawn(tasks, chunks_to_generate) ==
    IF chunks_to_generate = <<>> THEN tasks
    ELSE LET world_pos == Head(chunks_to_generate)
             refs == ChunksRefs_try_new(world_data, world_pos)
         IN  ve_spawn(IF refs = {} THEN tasks
                      ELSE Append(tasks, MeshTaskFor(world_pos, CHOOSE r \in refs : TRUE)),
                      Tail(chunks_to_generate))

ve_start_mesh_tasks ==
    /\ Runs("ve_start_mesh_tasks")
    /\ \E read_gained \in Orders(DOMAIN gained["Mesh"]) :
         LET queue == ve_sorted_queue(read_gained)
             free == MAX_MESH_TASKS - Len(ve_mesh_tasks)
             least == IF free <= Len(queue) THEN free ELSE Len(queue)
             tasks_left == IF least >= 0 THEN least ELSE 0
             out == ve_collect(queue, UsizeSub(Len(queue), 1), <<>>, tasks_left)
         IN  IF (Len(queue) = 0 /\ overflow_checks) \/ out.overflow
             THEN /\ panicked' = TRUE
                  /\ UNCHANGED <<ve_load_mesh_queue, ve_mesh_tasks>>
             ELSE /\ panicked' = FALSE
                  /\ ve_load_mesh_queue' = out.queue
                  /\ ve_mesh_tasks' = ve_spawn(ve_mesh_tasks, out.chunks)
                  /\ Len(ve_mesh_tasks') <= MaxMeshBacklog
    /\ UNCHANGED <<appVars, observerVars, relevanceVars, dataVars, modVars,
                   engineEventVars, ve_chunk_entities, mpMeshVars>>

\* ------------------------------------------------------------------------
\* End of the frame
\* ------------------------------------------------------------------------

\* Every reader has read the frame's events; World::clear_trackers drops the
\* removed-component events.
EndFrame ==
    /\ ~panicked
    /\ ran = systems
    /\ ran' = {}
    /\ gained' = [T \in Channels |-> EmptyBag]
    /\ lost' = [T \in Channels |-> EmptyBag]
    /\ removed_scanners' = [T \in Channels |-> {}]
    /\ scanner_log' = NoLog
    /\ chunk_generated' = EmptyBag
    /\ chunk_unloaded' = EmptyBag
    /\ chunk_modified' = EmptyBag
    /\ UNCHANGED <<appVars, panicked, translation, gt_changed, chunk_pos, pos_changed, scanner,
                   global_desired_chunks, net_relevance, dataVars, modVars, veMeshVars,
                   mpMeshVars>>

\* ------------------------------------------------------------------------
\* Specifications
\* ------------------------------------------------------------------------

\* No observer, no chunk, no event, no task
EmptyWorld ==
    /\ panicked = FALSE
    /\ ran = {}
    /\ translation = EmptyMap
    /\ gt_changed = {}
    /\ chunk_pos = EmptyMap
    /\ pos_changed = [T \in Channels |-> {}]
    /\ scanner = [T \in Channels |-> EmptyMap]
    /\ removed_scanners = [T \in Channels |-> {}]
    /\ scanner_log = NoLog
    /\ global_desired_chunks = [T \in Channels |-> {}]
    /\ gained = [T \in Channels |-> EmptyBag]
    /\ lost = [T \in Channels |-> EmptyBag]
    /\ net_relevance = [T \in Channels |-> EmptyBag]
    /\ world_data = EmptyMap
    /\ load_data_queue = <<>>
    /\ data_tasks = {}
    /\ chunk_modifications = EmptyMap
    /\ batches = 0
    /\ chunk_generated = EmptyBag
    /\ chunk_unloaded = EmptyBag
    /\ chunk_modified = EmptyBag
    /\ ve_load_mesh_queue = <<>>
    /\ ve_mesh_tasks = <<>>
    /\ ve_chunk_entities = {}
    /\ mp_load_mesh_queue = <<>>
    /\ mp_mesh_tasks = <<>>
    /\ chunk_mesh_entities = {}
    /\ mesh_entities = EmptyBag
    /\ mesh_versions = [dispatched |-> EmptyMap, shown |-> EmptyMap]

\* The App after its Startup schedule, where load_block_registry ran
InitState ==
    /\ block_registry = load_block_registry
    /\ call = NoCall
    /\ EmptyWorld

PreUpdate == update_chunk_pos \/ scan_data \/ scan_mesh

\* ScanSpec: ChunkTrackerPlugin and the ScannerPlugin of one channel, under
\* observers that are spawned, despawned and moved and that gain and lose
\* the scanner of that channel.  The two instances of scan::<T> share no
\* state, so each is followed on its own.
ScanSystem(T) == IF T = "Data" THEN "scan_data" ELSE "scan_mesh"

FollowedChannels == {T \in Channels : ScanSystem(T) \in systems}

ScanInit ==
    /\ \E T \in Channels : systems = {"update_chunk_pos", ScanSystem(T)}
    /\ overflow_checks = FALSE
    /\ InitState

ScanNext ==
    \/ \E e \in Entities, w \in Translations :
         \E Ts \in SUBSET FollowedChannels : Spawn(e, w, Ts)
    \/ \E e \in Entities : \E T \in FollowedChannels : InsertScanner(e, T)
    \/ \E e \in Entities : \E T \in FollowedChannels : RemoveScanner(e, T)
    \/ \E e \in Entities : Despawn(e)
    \/ \E e \in Entities, w \in Translations : Move(e, w)
    \/ PreUpdate
    \/ EndFrame

ScanSpec == ScanInit /\ [][ScanNext]_vars

\* DataSpec: the scanners and the data pipeline of VoxelEnginePlugin under
\* one observer that is spawned, moved between chunks and despawned.
Player == "e1"

DataInit ==
    /\ systems = ScannerSystems \cup EngineDataSystems
    /\ overflow_checks = FALSE
    /\ InitState

DataPipeline == start_modifications \/ join_data \/ unload_data \/ start_data_tasks

DataNext ==
    \/ \E w \in Translations : Spawn(Player, w, Channels)
    \/ Despawn(Player)
    \/ \E w \in Translations : Move(Player, w)
    \/ PreUpdate
    \/ DataPipeline
    \/ EndFrame

DataSpec == DataInit /\ [][DataNext]_vars

\* Spec: the scanners, the data pipeline and one of the two mesh pipelines
\* (the mesh systems of voxel_engine.rs in either build profile, or those of
\* rendering.rs), under one observer that is spawned and despawned.  The two
\* mesh pipelines write disjoint state and read none of each other's.
Start == <<16, 16, 16>>

Init ==
    /\ \/ /\ systems = ScannerSystems \cup EngineDataSystems \cup EngineMeshSystems
          /\ overflow_checks \in BOOLEAN
       \/ /\ systems = ScannerSystems \cup EngineDataSystems \cup RenderingSystems
          /\ overflow_checks = FALSE
    /\ InitState

Next ==
    \/ Spawn(Player, Start, Channels)
    \/ Despawn(Player)
    \/ PreUpdate
    \/ DataPipeline
    \/ ve_join_mesh
    \/ ve_unload_mesh
    \/ ve_start_mesh_tasks
    \/ r_join_mesh
    \/ r_unload_mesh
    \/ r_start_mesh_tasks
    \/ EndFrame

Spec == Init /\ [][Next]_vars

\* ModSpec: the scanners and the data pipeline under one observer and an
\* editor that submits modification batches.
ModNext ==
    \/ Spawn(Player, Start, Channels)
    \/ Despawn(Player)
    \/ \E pos \in BatchChunks, mods \in Batches : Modify(pos, mods)
    \/ PreUpdate
    \/ DataPipeline
    \/ EndFrame

ModSpec == DataInit /\ [][ModNext]_vars

\* SnapshotSpec: the scanners, the data pipeline and the meshing pipeline of
\* rendering.rs under one observer and an editor, so that chunks are unloaded
\* and modified while mesh tasks are in flight.
SnapshotInit ==
    /\ systems = ScannerSystems \cup EngineDataSystems \cup RenderingSystems
    /\ overflow_checks = FALSE
    /\ InitState

SnapshotNext ==
    \/ Spawn(Player, Start, Channels)
    \/ Despawn(Player)
    \/ Modify(ZERO, <<Interior>>)
    \/ PreUpdate
    \/ DataPipeline
    \/ r_join_mesh
    \/ r_unload_mesh
    \/ r_start_mesh_tasks
    \/ EndFrame

SnapshotSpec == SnapshotInit /\ [][SnapshotNext]_vars

\* EditSpec: join_data and start_modifications, entered with one uniform
\* chunk in world_data (generate yields uniform chunks only above and below
\* the terrain band), the generation task of the other one in flight, and
\* one batch of one or two ChunkModifications for one of the two chunks.
UniformChunks == {<<0, 4, 0>>, <<0, -4, 0>>}

EditCoords == {0, 1, 31}

BlockIds == {0, 1, 2}

EditInit ==
    /\ systems = {"join_data", "start_modifications"}
    /\ overflow_checks = FALSE
    /\ block_registry = load_block_registry
    /\ call = NoCall
    /\ panicked = FALSE
    /\ ran = {}
    /\ translation = EmptyMap
    /\ gt_changed = {}
    /\ chunk_pos = EmptyMap
    /\ pos_changed = [T \in Channels |-> {}]
    /\ scanner = [T \in Channels |-> EmptyMap]
    /\ removed_scanners = [T \in Channels |-> {}]
    /\ scanner_log = NoLog
    /\ global_desired_chunks = [T \in Channels |-> {}]
    /\ gained = [T \in Channels |-> EmptyBag]
    /\ lost = [T \in Channels |-> EmptyBag]
    /\ net_relevance = [T \in Channels |-> EmptyBag]
    /\ \E pos \in UniformChunks :
         /\ world_data = MapInsert(EmptyMap, pos, generate(pos))
         /\ data_tasks = UniformChunks \ {pos}
    /\ \E pos \in UniformChunks :
         \E x \in EditCoords, y \in EditCoords, z \in EditCoords, b \in BlockIds :
            LET edit == [local_pos |-> <<x, y, z>>, block_type |-> b]
            IN  \E mods \in {<<edit>>, <<edit, Interior>>} :
                   chunk_modifications = MapInsert(EmptyMap, pos, mods)
    /\ load_data_queue = <<>>
    /\ batches = 1
    /\ chunk_generated = EmptyBag
    /\ chunk_unloaded = EmptyBag
    /\ chunk_modified = EmptyBag
    /\ ve_load_mesh_queue = <<>>
    /\ ve_mesh_tasks = <<>>
    /\ ve_chunk_entities = {}
    /\ mp_load_mesh_queue = <<>>
    /\ mp_mesh_tasks = <<>>
    /\ chunk_mesh_entities = {}
    /\ mesh_entities = EmptyBag
    /\ mesh_versions = [dispatched |-> EmptyMap, shown |-> EmptyMap]

EditNext == join_data \/ start_modifications \/ EndFrame

EditSpec == EditInit /\ [][EditNext]_vars

\* TrackSpec: ChunkTrackerPlugin alone, under one observer that is spawned,
\* moved and despawned at world positions on both sides of the chunk borders
\* and of the origin.
WorldCoords == {-48, -17, -16, 0, 15, 16, 48}

WorldPositions == {<<x, y, z>> : x \in WorldCoords, y \in WorldCoords, z \in {0, 16}}

TrackInit ==
    /\ systems = {"update_chunk_pos"}
    /\ overflow_checks = FALSE
    /\ InitState

TrackNext ==
    \/ \E w \in WorldPositions : Spawn(Player, w, {"Data"})
    \/ \E w \in WorldPositions : Move(Player, w)
    \/ Despawn(Player)
    \/ update_chunk_pos
    \/ EndFrame

TrackSpec == TrackInit /\ [][TrackNext]_vars

\* OriginSpec: the scanners and the data pipeline under a single observer
\* with a DataScanner spawned at the world origin and left there.
Origin == <<0, 0, 0>>

OriginNext ==
    \/ Spawn(Player, Origin, {"Data"})
    \/ PreUpdate
    \/ DataPipeline
    \/ EndFrame

OriginSpec == DataInit /\ [][OriginNext]_vars

\* UtilSpec: one call of a function of utils.rs or of a noise downsampler of
\* chunk.rs, on arguments drawn from the values named in each action.
UtilInit ==
    /\ InitState
    /\ systems = {}
    /\ overflow_checks = FALSE

\* The test index_functions of utils.rs, for one position: index and back
index_functions ==
    /\ call = NoCall
    /\ \E x \in 0..31, y \in 0..31, z \in 0..31 :
         LET pos == <<x, y, z>>
             index == vec3_to_index(pos, 32)
         IN  call' = Returned("index_functions", pos,
                              [ index |-> index,
                                from_index |-> index_to_ivec3(index),
                                from_index_bounds |-> index_to_ivec3_bounds(index, 32) ])
    /\ UNCHANGED <<systems, overflow_checks, block_registry, panicked, ran, observerVars,
                   relevanceVars, engineVars>>

\* make_vertex_u32 and get_pos_from_vertex_u32 of its result
vertex_u32 ==
    /\ call = NoCall
    /\ \E pos \in [1..3 -> {0, 1, 31, 32, 33, 63}],
          ao \in {0, 1, 5, 7}, normal \in {0, 1, 5, 7}, block_type \in {0, 1, 2, 128, 255} :
         LET x == pos[1]
             y == pos[2]
             z == pos[3]
             vertex == make_vertex_u32(<<x, y, z>>, ao, normal, block_type)
         IN  call' = Returned("vertex_u32", <<<<x, y, z>>, ao, normal, block_type>>,
                              [ vertex |-> vertex,
                                pos |-> get_pos_from_vertex_u32(vertex) ])
    /\ UNCHANGED <<systems, overflow_checks, block_registry, panicked, ran, observerVars,
                   relevanceVars, engineVars>>

\* RegistrySpec: a BlockRegistry that grows from BlockRegistry::default() by
\* add_block, and flag queries on it for ids up to one past its capacity.
RegistryInit ==
    /\ block_registry = BlockRegistry_default
    /\ call = NoCall
    /\ EmptyWorld
    /\ systems = {}
    /\ overflow_checks = FALSE

AddBlock ==
    /\ Len(block_registry.block_id_to_string_identifier) < MaxBlocks
    /\ \E identifier \in {"air", "dirt"},
          block \in [ visibility : {"Solid", "Transparent", "Invisible"},
                      collision : BOOLEAN, color : {"magenta"} ] :
         block_registry' = add_block(block_registry, identifier, block)
    /\ UNCHANGED <<systems, overflow_checks, call, panicked, ran, observerVars,
                   relevanceVars, engineVars>>

IsSolid ==
    /\ \E block_id \in 0..MaxBlocks : call' = is_solid(block_registry, block_id)
    /\ UNCHANGED <<systems, overflow_checks, block_registry, panicked, ran, observerVars,
                   relevanceVars, engineVars>>

HasFlag ==
    /\ \E block_id \in 0..MaxBlocks, flag \in {"SOLID", "TRANSPARENT", "COLLISION"} :
         call' = has_flag("has_flag", block_registry, block_id, flag)
    /\ UNCHANGED <<systems, overflow_checks, block_registry, panicked, ran, observerVars,
                   relevanceVars, engineVars>>

RegistryNext == AddBlock \/ IsSolid \/ HasFlag

RegistrySpec == RegistryInit /\ [][RegistryNext]_vars

\* get_noise of a 2D downsampler built as generate builds them, at a sample
\* grid point or next to one
get_noise_2d ==
    /\ call = NoCall
    /\ \E upsampling \in {1, 5}, chunk_origin \in {<<0, 0>>, <<-32, 32>>} :
         LET sampler == NoiseDownSampler2D_new(upsampling, chunk_origin)
         IN
         \E x \in sampler.min_point[1]..(sampler.max_point[1] - 1),
            z \in sampler.min_point[2]..(sampler.max_point[2] - 1),
            off \in {<<0, 0>>, <<1, 0>>, <<1, 1>>} :
            call' = NoiseDownSampler2D_get_noise(sampler,
                        << ShiftLeft(x, sampler.upsampling) + off[1],
                           ShiftLeft(z, sampler.upsampling) + off[2] >>)
    /\ UNCHANGED <<systems, overflow_checks, block_registry, panicked, ran, observerVars,
                   relevanceVars, engineVars>>

\* get_noise of a 3D downsampler built as generate or test_interpolate build
\* them
get_noise_3d ==
    /\ call = NoCall
    /\ \E sampler \in {NoiseDownSampler3D_new(1, ZERO, <<0, 12, 0>>),
                       NoiseDownSampler3D_new(1, <<-32, 32, 0>>, <<0, 12, 0>>),
                       NoiseDownSampler3D_new(2, ZERO, ZERO)} :
         \E x \in sampler.min_point[1]..(sampler.max_point[1] - 1),
            y \in sampler.min_point[2]..(sampler.max_point[2] - 1),
            z \in sampler.min_point[3]..(sampler.max_point[3] - 1),
            off \in {<<0, 0, 0>>, <<1, 0, 0>>, <<0, 1, 1>>} :
            call' = NoiseDownSampler3D_get_noise(sampler,
                        << ShiftLeft(x, sampler.upsampling) + off[1],
                           ShiftLeft(y, sampler.upsampling) + off[2],
                           ShiftLeft(z, sampler.upsampling) + off[3] >>)
    /\ UNCHANGED <<systems, overflow_checks, block_registry, panicked, ran, observerVars,
                   relevanceVars, engineVars>>

\* The 3D samplers asked over the region their buffer is to cover: upsampling,
\* chunk origin and buffer of the overhang sampler of generate, of a sampler
\* without upsampling, and of samplers without buffer.
BufferedSamplers ==
    { <<1, ZERO, <<0, 12, 0>>>>, <<0, ZERO, <<0, 2, 0>>>>,
      <<2, <<-32, 32, 0>>, ZERO>>, <<5, ZERO, ZERO>> }

\* get_noise of a 3D sampler at the corners of its chunk's columns, over
\* the heights from buffer << upsampling below the chunk to as far above it.
get_noise_3d_buffer ==
    /\ call = NoCall
    /\ \E t \in BufferedSamplers :
         LET reach == ShiftLeft(t[3][2], t[1])
         IN  \E x \in {t[2][1], t[2][1] + CHUNK_SIZE - 1},
                y \in (t[2][2] - reach)..(t[2][2] + CHUNK_SIZE + reach - 1),
                z \in {t[2][3], t[2][3] + CHUNK_SIZE - 1} :
                call' = NoiseDownSampler3D_get_noise(
                            NoiseDownSampler3D_new(t[1], t[2], t[3]), <<x, y, z>>)
    /\ UNCHANGED <<systems, overflow_checks, block_registry, panicked, ran, observerVars,
                   relevanceVars, engineVars>>

UtilNext == index_functions \/ vertex_u32 \/ get_noise_2d \/ get_noise_3d \/ get_noise_3d_buffer

UtilSpec == UtilInit /\ [][UtilNext]_vars

\* PairSpec: the scanners and the data pipeline under two Data observers in
\* neighbouring chunks, each spawned and despawned on its own.
PairNext ==
    \/ Spawn("e1", Start, {"Data"})
    \/ Spawn("e2", <<48, 16, 16>>, {"Data"})
    \/ \E e \in Entities : Despawn(e)
    \/ PreUpdate
    \/ DataPipeline
    \/ EndFrame

PairSpec == DataInit /\ [][PairNext]_vars

\* MeshPairSpec: the scanners, the data pipeline and the mesh pipeline of
\* rendering.rs under an observer with both scanners and, in the next chunk,
\* a second observer with a Mesh scanner only, which comes and goes.
MeshPairNext ==
    \/ Spawn("e1", Start, Channels)
    \/ Spawn("e2", <<48, 16, 16>>, {"Mesh"})
    \/ Despawn("e2")
    \/ PreUpdate
    \/ DataPipeline
    \/ r_join_mesh
    \/ r_unload_mesh
    \/ r_start_mesh_tasks
    \/ EndFrame

MeshPairSpec == SnapshotInit /\ [][MeshPairNext]_vars





\* ------------------------------------------------------------------------
\* Relevance events (scanner.rs)
\* ------------------------------------------------------------------------

\* Whether the step is a pass of scan::<T> that got past its early return
ScanPassStep(T) == ScanSystem(T) \in ran' \ ran /\ ScanPasses(T)

\* C1: a scan pass sends ChunkGainedScannerRelevance exactly once for every
\* chunk of the new union of boxes that was not in GlobalScannerDesiredChunks
\* before the pass, ChunkLostScannerRelevance exactly once for every chunk
\* that was in it and is not in the new union, and no event for any other
\* chunk; a chunk inside the boxes of several scanners gets one gained event.
C1_ScanPassEvents ==
    [][\A T \in Channels :
         ScanPassStep(T) =>
           LET before == global_desired_chunks[T]
               union == current_desired_chunks(T)
               sent_gained == gained'[T] (-) gained[T]
               sent_lost == lost'[T] (-) lost[T]
           IN  \A c \in before \cup union \cup DOMAIN sent_gained \cup DOMAIN sent_lost :
                 /\ Copies(sent_gained, c) = (IF c \in union \ before THEN 1 ELSE 0)
                 /\ Copies(sent_lost, c) = (IF c \in before \ union THEN 1 ELSE 0)]_vars

\* A pass has just sent gained and lost events, one of the gained chunks
\* lying in the boxes of two scanners.
C1_Witness ==
    \E T \in Channels :
      /\ ScanSystem(T) \in ran
      /\ lost[T] # EmptyBag
      /\ \E c \in DOMAIN gained[T] :
           \E e1 \in Scanners(T), e2 \in Scanners(T) :
             /\ e1 # e2
             /\ \A e \in {e1, e2} :
                  c \in iter_chunks_around(chunk_pos[e], scanner[T][e].horizontal_radius,
                                           scanner[T][e].vertical_radius)

\* C2: for every chunk the gained and lost events of a channel alternate,
\* starting with a gained one: the number of gained events minus the number
\* of lost events sent so far is 1 for the chunks of GlobalScannerDesiredChunks
\* and 0 for every other chunk, and no pass sends both for one chunk.
C2_EventsAlternate ==
    \A T \in Channels :
      /\ \A c \in DOMAIN net_relevance[T] \cup global_desired_chunks[T] :
           Copies(net_relevance[T], c) = (IF c \in global_desired_chunks[T] THEN 1 ELSE 0)
      /\ DOMAIN gained[T] \cap DOMAIN lost[T] = {}

\* A pass has just sent lost events and gained events for an observer away
\* from the origin chunk, the gained chunks now being desired.
C2_Witness ==
    \E T \in Channels :
      /\ lost[T] # EmptyBag
      /\ \E c \in DOMAIN gained[T] : c \notin {ZERO} /\ c \in global_desired_chunks[T]
      /\ \E e \in Scanners(T) : chunk_pos[e] # ZERO

\* ------------------------------------------------------------------------
\* Pipelines (voxel_engine.rs, rendering.rs)
\* ------------------------------------------------------------------------

\* The chunks around pos that belong to the tracked row, pos among them
RowNeighbourhood(pos) == {<<pos[1] + dx, pos[2], pos[3]>> : dx \in {-1, 0, 1}}

\* The positions of the tasks a start_mesh_tasks step pushed
Pushed(before, after) == {after[i].pos : i \in (Len(before) + 1)..Len(after)}

\* C3: whenever start_mesh_tasks of rendering.rs or of voxel_engine.rs starts
\* a mesh task for a chunk, the chunk and every neighbour of it (of the
\* tracked row) is a key of world_data.
C3_MeshTaskHasNeighbours ==
    [][/\ "r_start_mesh_tasks" \in ran' \ ran =>
            \A pos \in Pushed(mp_mesh_tasks, mp_mesh_tasks') :
              RowNeighbourhood(pos) \subseteq DOMAIN world_data
       /\ "ve_start_mesh_tasks" \in ran' \ ran =>
            \A pos \in Pushed(ve_mesh_tasks, ve_mesh_tasks') :
              RowNeighbourhood(pos) \subseteq DOMAIN world_data]_vars

\* The MeshingPipeline has just started a task while a chunk whose
\* neighbours are not all generated stays queued.
C3_Witness ==
    /\ "r_start_mesh_tasks" \in ran
    /\ mp_mesh_tasks # <<>>
    /\ \A i \in DOMAIN mp_mesh_tasks :
         RowNeighbourhood(mp_mesh_tasks[i].pos) \subseteq DOMAIN world_data
    /\ \E c \in SeqToSet(mp_load_mesh_queue) :
         ~(RowNeighbourhood(c) \subseteq DOMAIN world_data)

\* C4 (as the spec states it): at the end of every tick every key of
\* world_data is a member of GlobalScannerDesiredChunks<DataScanner>.
C4_WorldDataIsDesired ==
    Idle => DOMAIN world_data \subseteq global_desired_chunks["Data"]


\* C5 (as the spec states it): at the end of every tick every chunk with a
\* mesh entity is a member of GlobalScannerDesiredChunks<MeshScanner>.
C5_MeshEntitiesAreDesired ==
    Idle => (chunk_mesh_entities \cup ve_chunk_entities) \subseteq global_desired_chunks["Mesh"]

\* C6: data_tasks never holds more than MAX_DATA_TASKS generation tasks.
C6_DataTasksCapped == Cardinality(data_tasks) <= MAX_DATA_TASKS

\* start_data_tasks has filled every slot and left chunks in the queue.
C6_Witness ==
    /\ "start_data_tasks" \in ran
    /\ Cardinality(data_tasks) = MAX_DATA_TASKS
    /\ load_data_queue # <<>>

\* C7: MeshingPipeline.mesh_tasks never holds more than MAX_MESH_TASKS tasks.
C7_MeshTasksCapped == Len(mp_mesh_tasks) <= MAX_MESH_TASKS

\* start_mesh_tasks of rendering.rs has filled every slot and left in the
\* queue a chunk that is ready to be meshed.
C7_Witness ==
    /\ "r_start_mesh_tasks" \in ran
    /\ Len(mp_mesh_tasks) = MAX_MESH_TASKS
    /\ \E c \in SeqToSet(mp_load_mesh_queue) : RowNeighbourhood(c) \subseteq DOMAIN world_data

\* C8: unload_data leaves every chunk named by a ChunkLostScannerRelevance
\* <DataScanner> event out of world_data and out of load_data_queue and sends
\* exactly one ChunkUnloaded for it; the world_data entries and the queue
\* membership of every other chunk stay as they were.
C8_UnloadData ==
    []["unload_data" \in ran' \ ran =>
         LET unloaded == DOMAIN lost["Data"]
             sent == chunk_unloaded' (-) chunk_unloaded
         IN  /\ \A c \in unloaded :
                  /\ c \notin DOMAIN world_data'
                  /\ c \notin SeqToSet(load_data_queue')
                  /\ Copies(sent, c) = 1
             /\ DOMAIN sent \subseteq unloaded
             /\ DOMAIN world_data' = DOMAIN world_data \ unloaded
             /\ \A c \in DOMAIN world_data' : world_data'[c] = world_data[c]
             /\ SeqToSet(load_data_queue') = SeqToSet(load_data_queue) \ unloaded]_vars

\* unload_data has just unloaded a chunk generated in this tick, while other
\* chunks stay in world_data and in the queue.
C8_Witness ==
    /\ "unload_data" \in ran
    /\ "start_data_tasks" \notin ran
    /\ DOMAIN chunk_generated \cap DOMAIN chunk_unloaded # {}
    /\ world_data # EmptyMap
    /\ load_data_queue # <<>>

\* C9 (as the spec states it): unload_mesh leaves every chunk named by a
\* ChunkLostScannerRelevance<MeshScanner> event out of the mesh load queue
\* and without a mesh entity, whether or not it had one.
C9_UnloadMesh ==
    [][/\ "r_unload_mesh" \in ran' \ ran =>
            \A c \in DOMAIN lost["Mesh"] :
              c \notin SeqToSet(mp_load_mesh_queue') /\ c \notin chunk_mesh_entities'
       /\ "ve_unload_mesh" \in ran' \ ran =>
            \A c \in DOMAIN lost["Mesh"] :
              c \notin SeqToSet(ve_load_mesh_queue') /\ c \notin ve_chunk_entities']_vars

\* The face neighbours an edit at local_pos selects: coordinate 0 the one on
\* the negative side of that axis, coordinate 31 the one on the positive side
FaceDirections(local_pos) ==
    {[a \in 1..3 |-> IF a = axis THEN -1 ELSE 0] :
       axis \in {a \in 1..3 : local_pos[a] = 0}}
      \cup {[a \in 1..3 |-> IF a = axis THEN 1 ELSE 0] :
              axis \in {a \in 1..3 : local_pos[a] = 31}}

\* C10 (as the spec states it): when start_modifications applies a batch to a
\* chunk of world_data it sends ChunkModified for the chunk and for every
\* face neighbour (of the tracked row) that an edit of the batch selects.
C10_ModifiedNeighbours ==
    []["start_modifications" \in ran' \ ran =>
         LET sent == chunk_modified' (-) chunk_modified
         IN  \A pos \in DOMAIN chunk_modifications \cap DOMAIN world_data :
               /\ pos \in DOMAIN sent
               /\ \A i \in DOMAIN chunk_modifications[pos] :
                    \A dir \in FaceDirections(chunk_modifications[pos][i].local_pos) :
                      Row({VecAdd(pos, dir)}) \subseteq DOMAIN sent]_vars

\* ------------------------------------------------------------------------
\* Edits of uniform chunks (voxel_engine.rs)
\* ------------------------------------------------------------------------

\* A start_modifications step that applies a batch of one edit to a chunk
\* stored as a single voxel.
SingleEdits ==
    {c \in Applied : world_data[c].len = 1 /\ Len(chunk_modifications[c]) = 1}

EditIndex(c) ==
    LET p == chunk_modifications[c][1].local_pos
    IN  p[1] + (32 * p[2]) + (1024 * p[3])

Differing(cd, v) == {i \in 0..(cd.len - 1) : get_block(cd, i) # v}

\* C11 as stated: a single edit (p, b) of a uniform chunk of value v yields
\* 32768 voxels of which exactly one differs from v, the one at index
\* p.x + 32*p.y + 1024*p.z, which holds b.  Violated by an edit with b = v.
C11_ExactlyOneDiffers ==
    [][start_modifications =>
         \A c \in SingleEdits :
            LET v == world_data[c].block
                b == chunk_modifications[c][1].block_type
            IN  /\ world_data'[c].len = 32768
                /\ Differing(world_data'[c], v) = {EditIndex(c)}
                /\ get_block(world_data'[c], EditIndex(c)) = b]_vars

\* C11 amended: a single edit (p, b) of a uniform chunk of value v yields
\* 32768 voxels; the one at index p.x + 32*p.y + 1024*p.z holds b and every
\* other one holds v, so exactly one entry differs from v when b # v and
\* none when b = v.
C11_SingleEdit ==
    [][start_modifications =>
         \A c \in SingleEdits :
            LET v == world_data[c].block
                b == chunk_modifications[c][1].block_type
            IN  /\ world_data'[c].len = 32768
                /\ get_block(world_data'[c], EditIndex(c)) = b
                /\ \A i \in 0..32767 : i # EditIndex(c) => get_block(world_data'[c], i) = v
                /\ Differing(world_data'[c], v) = IF b = v THEN {} ELSE {EditIndex(c)}]_vars

\* An edit at the far corner (31, 31, 31) with a block other than the
\* chunk's has been applied.
C11_Witness ==
    /\ "start_modifications" \in ran
    /\ \E c \in DOMAIN world_data :
         /\ world_data[c].len = CHUNK_SIZE3
         /\ world_data[c].fill = "block"
         /\ get_block(world_data[c], 32767) # world_data[c].block

\* ------------------------------------------------------------------------
\* Chunk lifecycle events (voxel_engine.rs)
\* ------------------------------------------------------------------------

\* C12 (as the spec states it): ChunkGenerated(C) is emitted only by a step
\* that inserts C into world_data while C is not already there, and
\* ChunkUnloaded(C) only by a step that removes C from world_data where it
\* was, so that the two events of a chunk alternate starting with
\* ChunkGenerated.  unload_data sends ChunkUnloaded for every lost chunk,
\* loaded or not, and join_data sends ChunkGenerated for every finished task.
C12_GeneratedUnloadedAlternate ==
    [][/\ \A c \in DOMAIN chunk_generated' :
            Copies(chunk_generated', c) > Copies(chunk_generated, c) =>
                c \notin DOMAIN world_data /\ c \in DOMAIN world_data'
       /\ \A c \in DOMAIN chunk_unloaded' :
            Copies(chunk_unloaded', c) > Copies(chunk_unloaded, c) =>
                c \in DOMAIN world_data /\ c \notin DOMAIN world_data']_vars

\* ------------------------------------------------------------------------
\* The global collector (scanner.rs)
\* ------------------------------------------------------------------------

\* Every system of the tick has run.
EndOfTick == ran = systems /\ ~panicked

\* C13 (as the spec states it): at the end of every tick GlobalDesired<T> is
\* the union of the boxes around the ChunkPos of the entities that carry a
\* Scanner<T>, also in a tick in which a Scanner<T> was added to an entity
\* that already had a ChunkPos.  scan::<T> returns early in that tick: the
\* insertion does not change ChunkPos.
C13_GlobalDesiredIsUnionOfBoxes ==
    EndOfTick =>
        \A T \in FollowedChannels : global_desired_chunks[T] = current_desired_chunks(T)

\* Since the last tick ended no Scanner<T> was added or removed and no
\* scanner's ChunkPos changed.
QuietTick(T) ==
    /\ ~scanner_log[T].added
    /\ ~scanner_log[T].moved
    /\ scanner_log[T].removed = {}
    /\ removed_scanners[T] = {}

\* C14: in a tick in which no Scanner<T> was added or removed and no
\* scanner's ChunkPos changed, scan::<T> sends no ChunkGainedScannerRelevance
\* <T> and no ChunkLostScannerRelevance<T> event and leaves GlobalDesired<T>
\* as it was, also when observers moved inside their chunk.
C14_QuietTickSendsNothing ==
    [][\A T \in FollowedChannels :
          (ScanSystem(T) \in ran' \ ran /\ QuietTick(T)) =>
              /\ gained'[T] = gained[T]
              /\ lost'[T] = lost[T]
              /\ global_desired_chunks'[T] = global_desired_chunks[T]]_vars

\* scan::<T> has run in a quiet tick in which a scanner with a non-empty
\* collector moved inside its chunk.
C14_Witness ==
    \E T \in FollowedChannels :
       /\ ScanSystem(T) \in ran
       /\ QuietTick(T)
       /\ scanner_log[T].nudged
       /\ global_desired_chunks[T] # {}
       /\ gained[T] = EmptyBag

\* The ChunkLostScannerRelevance<T> events a step sends
LostSent(T) == lost'[T] (-) lost[T]

\* C15 as stated: in the tick after a Scanner<T> was removed, scan::<T> runs
\* a pass that sends ChunkLostScannerRelevance<T> for exactly the chunks of
\* the removed scanner's box that are in no remaining scanner's box.
\* Violated when the removed scanner's box never entered GlobalDesired<T>.
C15_LostForRemovedBox ==
    [][\A T \in FollowedChannels :
          (ScanSystem(T) \in ran' \ ran /\ scanner_log[T].removed # {}) =>
              /\ global_desired_chunks'[T] = current_desired_chunks(T)
              /\ \A c \in scanner_log[T].removed :
                   Copies(LostSent(T), c) =
                       (IF c \notin current_desired_chunks(T) THEN 1 ELSE 0)]_vars

\* C15 amended: in the tick after a Scanner<T> was removed, scan::<T> runs a
\* pass (also when no Scanner<T> is left); of the chunks of the removed
\* scanner's box it sends ChunkLostScannerRelevance<T> for exactly those that
\* GlobalDesired<T> held and that are in no remaining scanner's box.
C15_LostForRemovedDesired ==
    [][\A T \in FollowedChannels :
          (ScanSystem(T) \in ran' \ ran /\ scanner_log[T].removed # {}) =>
              /\ global_desired_chunks'[T] = current_desired_chunks(T)
              /\ \A c \in scanner_log[T].removed :
                   Copies(LostSent(T), c) =
                       (IF c \in global_desired_chunks[T] /\ c \notin current_desired_chunks(T)
                        THEN 1 ELSE 0)]_vars

\* The pass after a removal has sent lost events for part of the removed
\* scanner's box and kept the part a remaining scanner still desires.
C15_Witness ==
    \E T \in FollowedChannels :
       /\ ScanSystem(T) \in ran
       /\ Scanners(T) # {}
       /\ scanner_log[T].removed \cap DOMAIN lost[T] # {}
       /\ scanner_log[T].removed \cap global_desired_chunks[T] # {}

\* ------------------------------------------------------------------------
\* ChunkPos derivation (utils.rs, scanner.rs)
\* ------------------------------------------------------------------------

\* floor((w - 16) / 32) on each component
FloorChunk(w) == <<(w[1] - 16) \div 32, (w[2] - 16) \div 32, (w[3] - 16) \div 32>>

\* C16 (as the spec states it): once update_chunk_pos has run, the ChunkPos of
\* every tracked entity is floor((w - 16) / 32) of its world position w on
\* each component, also for coordinates below 16 and negative ones.
\* world_to_chunk converts with as_ivec3, which rounds toward zero.
C16_ChunkPosIsFloor ==
    "update_chunk_pos" \in ran =>
        \A e \in DOMAIN chunk_pos : chunk_pos[e] = FloorChunk(translation[e])

\* ------------------------------------------------------------------------
\* First tick of a single observer at the origin
\* ------------------------------------------------------------------------

\* The chunks {-1, 0, 1}^3
UnitBox == {<<x, y, z>> : x \in {-1, 0, 1}, y \in {-1, 0, 1}, z \in {-1, 0, 1}}

\* Every generation task has been dispatched and joined.
GeneratorCaughtUp ==
    /\ global_desired_chunks["Data"] # {}
    /\ load_data_queue = <<>>
    /\ data_tasks = {}

\* C17 (as the spec states it): with one observer at world position (0,0,0)
\* carrying a Data scanner with hr = vr = 1, the tick that sends
\* ChunkGainedScannerRelevance<DataScanner> events sends exactly 27, one for
\* each chunk of {-1,0,1}^3 (in the tracked row: one for each chunk of that
\* box's row), and once every generation task is joined world_data holds
\* exactly those chunks.  iter_chunks_around yields the 64 chunks of
\* {-2,-1,0,1}^3 around ChunkPos (0,0,0).
C17_FirstTickGains27 ==
    /\ gained["Data"] # EmptyBag =>
          /\ Cardinality(iter_chunks_around(chunk_pos[Player],
                                            scanner["Data"][Player].horizontal_radius,
                                            scanner["Data"][Player].vertical_radius)) = 27
          /\ iter_chunks_around(chunk_pos[Player],
                                scanner["Data"][Player].horizontal_radius,
                                scanner["Data"][Player].vertical_radius) = UnitBox
          /\ gained["Data"] = SetToBag(Row(UnitBox))
    /\ GeneratorCaughtUp => DOMAIN world_data = Row(UnitBox)

\* ------------------------------------------------------------------------
\* Joining generation tasks (voxel_engine.rs)
\* ------------------------------------------------------------------------

\* C18: in a join_data step every outstanding task that has completed has
\* its chunk inserted into world_data with the task's result, exactly one
\* ChunkGenerated sent for it and is removed from data_tasks; every task that
\* has not completed stays in data_tasks and leaves the world_data entry of
\* its chunk as it was; data_tasks then holds the pending tasks only.
C18_JoinData ==
    [][\A finished \in SUBSET data_tasks :
          join_data_polled(finished) =>
              LET sent == chunk_generated' (-) chunk_generated
              IN  /\ \A c \in finished :
                       /\ c \in DOMAIN world_data'
                       /\ world_data'[c] = generate(c)
                       /\ Copies(sent, c) = 1
                       /\ c \notin data_tasks'
                  /\ \A c \in data_tasks \ finished :
                       /\ c \in data_tasks'
                       /\ Copies(sent, c) = 0
                       /\ (c \in DOMAIN world_data') = (c \in DOMAIN world_data)
                       /\ c \in DOMAIN world_data => world_data'[c] = world_data[c]
                  /\ data_tasks' = data_tasks \ finished]_vars

\* join_data has joined one task and left another pending.
C18_Witness ==
    /\ "join_data" \in ran
    /\ "start_data_tasks" \notin ran
    /\ chunk_generated # EmptyBag
    /\ data_tasks # {}

\* ------------------------------------------------------------------------
\* Chunk mesh entities (rendering.rs)
\* ------------------------------------------------------------------------

\* Each chunk has at most one live chunk entity, and ChunkMeshEntities holds
\* exactly the chunks that have one.
OneLiveEntityPerChunk ==
    \A c \in DOMAIN mesh_entities \cup chunk_mesh_entities :
       Copies(mesh_entities, c) = (IF c \in chunk_mesh_entities THEN 1 ELSE 0)

\* The last of the joined tasks of chunk c
LastJoined(finished, c) ==
    CHOOSE i \in finished :
       /\ mp_mesh_tasks[i].pos = c
       /\ \A j \in finished : mp_mesh_tasks[j].pos = c => j <= i

\* C19: after every step each chunk has at most one live chunk entity and
\* ChunkMeshEntities holds exactly the live ones; a join_mesh step leaves the
\* chunk of a completed task with one entity (the old one destroyed, a new
\* one created) if the task has an opaque or a transparent mesh and with
\* none if both meshes are missing, and leaves the other chunks' entities.
C19_MeshEntities ==
    [][/\ OneLiveEntityPerChunk'
       /\ \A finished \in SUBSET DOMAIN mp_mesh_tasks :
            \A produced \in SUBSET finished :
               r_join_mesh_polled(finished, produced) =>
                  LET joined == {mp_mesh_tasks[i].pos : i \in finished}
                  IN  /\ \A c \in joined :
                           /\ (c \in chunk_mesh_entities') =
                                  (LastJoined(finished, c) \in produced)
                           /\ Copies(mesh_entities', c) =
                                  (IF LastJoined(finished, c) \in produced THEN 1 ELSE 0)
                      /\ chunk_mesh_entities' \ joined = chunk_mesh_entities \ joined]_vars

\* join_mesh has run, some chunk has its entity, and a desired chunk whose
\* neighbours are all loaded is left without entity, task and queue entry: its
\* task was joined with both meshes missing.
C19_Witness ==
    /\ "r_join_mesh" \in ran
    /\ "r_start_mesh_tasks" \notin ran
    /\ chunk_mesh_entities # {}
    /\ \E c \in global_desired_chunks["Mesh"] \ chunk_mesh_entities :
         /\ RowNeighbourhood(c) \subseteq DOMAIN world_data
         /\ c \notin DOMAIN gained["Mesh"]
         /\ c \notin SeqToSet(mp_load_mesh_queue)
         /\ \A i \in DOMAIN mp_mesh_tasks : mp_mesh_tasks[i].pos # c

\* ------------------------------------------------------------------------
\* Snapshots of in-flight mesh tasks (rendering.rs, voxel_engine.rs)
\* ------------------------------------------------------------------------

\* What world_data holds around the chunk of a task
HeldAround(world_pos) ==
    [dir \in ADJACENT_CHUNK_DIRECTIONS |-> world_data[VecAdd(world_pos, dir)]]

\* C20: the chunks an in-flight mesh task reads are those world_data held
\* when the task was dispatched.  In every step the tasks that stay in flight
\* keep their ChunksRefs as they were, whatever the step unloads from
\* world_data or modifies in it, and each task the step dispatches reads what
\* world_data holds around its chunk at that step.
C20_TaskReadsSnapshot ==
    [][\E finished \in SUBSET DOMAIN mp_mesh_tasks :
          LET kept == Retain(mp_mesh_tasks, 1, finished)
          IN  /\ Len(mp_mesh_tasks') >= Len(kept)
              /\ SubSeq(mp_mesh_tasks', 1, Len(kept)) = kept
              /\ \A i \in (Len(kept) + 1)..Len(mp_mesh_tasks') :
                   /\ world_data' = world_data
                   /\ RowNeighbourhood(mp_mesh_tasks'[i].pos) \subseteq DOMAIN world_data
                   /\ mp_mesh_tasks'[i].chunks_refs = HeldAround(mp_mesh_tasks'[i].pos)]_vars

\* A mesh task is in flight while start_modifications has modified one of the
\* chunks it reads: world_data holds the modified chunk, the task the chunk as
\* it was dispatched with.
C20_Witness ==
    /\ "start_modifications" \in ran
    /\ \E i \in DOMAIN mp_mesh_tasks :
         \E dir \in ADJACENT_CHUNK_DIRECTIONS :
            LET c == VecAdd(mp_mesh_tasks[i].pos, dir)
            IN  /\ c \in DOMAIN chunk_modified
                /\ c \in DOMAIN world_data
                /\ world_data[c].writes # EmptyMap
                /\ mp_mesh_tasks[i].chunks_refs[dir].writes = EmptyMap

\* A mesh task is in flight while unload_data has removed one of the chunks
\* it reads from world_data.
C20_WitnessUnloaded ==
    /\ "unload_data" \in ran
    /\ \E i \in DOMAIN mp_mesh_tasks :
         \E dir \in ADJACENT_CHUNK_DIRECTIONS :
            VecAdd(mp_mesh_tasks[i].pos, dir) \in DOMAIN chunk_unloaded \ DOMAIN world_data

\* ------------------------------------------------------------------------
\* Chunk storage (chunk.rs, voxel_engine.rs)
\* ------------------------------------------------------------------------

\* C21: every ChunkData in world_data has exactly 1 or exactly 32768 voxel
\* entries; a chunk that has been written to has 32768 entries, every write
\* inside them; and get_block on a one-entry chunk returns that entry for
\* every index in [0, 32768).
C21_ChunkDataShape ==
    \A c \in DOMAIN world_data :
       LET cd == world_data[c]
       IN  /\ cd.len \in {1, 32768}
           /\ cd.writes # EmptyMap => cd.len = 32768
           /\ DOMAIN cd.writes \subseteq 0..(cd.len - 1)
           /\ cd.len = 1 => \A i \in 0..32767 : get_block(cd, i) = cd.block

\* world_data holds a one-entry chunk joined from its generation task next to
\* a chunk that a batch of two modifications has expanded and written.
C21_Witness ==
    /\ chunk_generated # EmptyBag
    /\ \E c \in DOMAIN chunk_generated : c \in DOMAIN world_data /\ world_data[c].len = 1
    /\ \E c \in DOMAIN world_data :
         /\ world_data[c].len = CHUNK_SIZE3
         /\ Cardinality(DOMAIN world_data[c].writes) = 2

\* ------------------------------------------------------------------------
\* Index and vertex packing (utils.rs)
\* ------------------------------------------------------------------------

\* C22: for every (x, y, z) in [0, 32)^3, vec3_to_index((x, y, z), 32) is
\* x + 32*y + 1024*z, and index_to_ivec3 and index_to_ivec3_bounds(., 32) of
\* that index are (x, y, z) again.
C22_IndexRoundTrip ==
    call.fn = "index_functions" =>
        LET pos == call.args
            r == call.result[1]
        IN  /\ r.index = pos[1] + 32 * pos[2] + 1024 * pos[3]
            /\ r.from_index = pos
            /\ r.from_index_bounds = pos

\* The round trip of a position whose three coordinates differ
C22_Witness ==
    /\ call.fn = "index_functions"
    /\ call.args = <<31, 7, 19>>
    /\ call.result[1].index = 31 + 32 * 7 + 1024 * 19

\* C23: for every position with components in [0, 64), ao and normal in
\* [0, 8) and block type in [0, 256), get_pos_from_vertex_u32 of
\* make_vertex_u32 is the position: the other fields leave the 18 position
\* bits alone.
C23_VertexRoundTrip ==
    call.fn = "vertex_u32" => call.result[1].pos = call.args[1]

\* A vertex with every field at its maximum: all 32 bits are set
C23_Witness ==
    /\ call.fn = "vertex_u32"
    /\ call.args = <<<<63, 63, 63>>, 7, 7, 255>>
    /\ call.result[1].vertex = 0..31
    /\ call.result[1].pos = <<63, 63, 63>>

\* ------------------------------------------------------------------------
\* Block registry (voxel.rs)
\* ------------------------------------------------------------------------

\* The ids handed out by add_block so far
AssignedIds == 0..(Len(block_registry.block_id_to_string_identifier) - 1)

\* C24: after any sequence of add_block calls the identifier, flags and
\* colour vectors have the same length, the number of ids assigned, so that
\* every assigned BlockId indexes an entry of each.
C24_ArraysSameLength ==
    /\ Len(block_registry.block_flags) = Cardinality(AssignedIds)
    /\ Len(block_registry.block_color) = Cardinality(AssignedIds)
    /\ \A id \in AssignedIds :
         /\ id + 1 \in DOMAIN block_registry.block_id_to_string_identifier
         /\ id + 1 \in DOMAIN block_registry.block_flags
         /\ id + 1 \in DOMAIN block_registry.block_color

\* Whether the flag query recorded in call was for an id the registry lacks
AbsentIdQueried ==
    /\ call.fn \in {"is_solid", "has_flag"}
    /\ call.args[1] >= Len(block_registry.block_flags)

\* C25: is_solid and has_flag of a block id that the registry does not hold
\* do not fail and report that the flag is not set, as for air.
C25_AbsentIdIsAir ==
    AbsentIdQueried => ~call.panic /\ call.result = <<FALSE>>

\* ------------------------------------------------------------------------
\* Noise downsamplers (chunk.rs)
\* ------------------------------------------------------------------------

\* The sample grid points of a sampler, min_point <= g < max_point
GridPoints(sampler) ==
    {g \in [DOMAIN sampler.min_point -> Int] :
        \A a \in DOMAIN g : sampler.min_point[a] <= g[a] /\ g[a] < sampler.max_point[a]}

\* The grid coordinate of the point asked of get_noise, when it is a sample
\* grid point
AskedGridPoint ==
    [a \in DOMAIN call.args[3] |-> ShiftRight(call.args[3][a], call.args[2].upsampling)]

AskedAtGridPoint ==
    /\ call.fn = "get_noise"
    /\ \A a \in DOMAIN call.args[3] :
         ShiftLeft(AskedGridPoint[a], call.args[2].upsampling) = call.args[3][a]

\* get_noise returned exactly the sample of the point asked: every read was
\* inside samples, and no other sample has a weight
ReturnedOwnSample ==
    /\ ~call.panic
    /\ call.result[1].weights = [p \in {call.args[3]} |-> call.result[1].unit]

\* C26: for the 2D and the 3D downsampler and every sample grid point g with
\* min <= g < max on every axis, get_noise(g << u) returns exactly the sample
\* stored for g, reading only inside the sample array.
C26_GridPointExact ==
    AskedAtGridPoint /\ AskedGridPoint \in GridPoints(call.args[2]) => ReturnedOwnSample

\* The same for the grid points that have a sampled neighbour above them on
\* every axis, min <= g < max - 1: these include every grid point of the
\* chunk the sampler was built for.
HasUpperNeighbours ==
    \A a \in DOMAIN AskedGridPoint : AskedGridPoint[a] < call.args[2].max_point[a] - 1

C26_InnerGridPointExact ==
    AskedAtGridPoint /\ AskedGridPoint \in GridPoints(call.args[2]) /\ HasUpperNeighbours
        => ReturnedOwnSample

\* The 3D sampler of generate returned the sample of a grid point inside its
\* buffer, below the chunk
C26_Witness ==
    /\ AskedAtGridPoint
    /\ call.args[1] = "3D"
    /\ call.args[3] = <<-32, 20, 30>>
    /\ HasUpperNeighbours
    /\ ReturnedOwnSample

\* The 2D sampler of upsampling 5 returned the sample of its chunk's corner
C26_Witness2D ==
    /\ AskedAtGridPoint
    /\ call.args[1] = "2D"
    /\ call.args[2].upsampling = 5
    /\ call.args[3] = <<-32, 32>>
    /\ ReturnedOwnSample

\* ------------------------------------------------------------------------
\* Order of the systems inside a tick
\* ------------------------------------------------------------------------

\* C27: inside every tick the scan passes come before every system of the
\* data and mesh pipelines, start_modifications before join_mesh, and
\* join_data before start_mesh_tasks.
C27_SystemOrder ==
    /\ ran \cap (EngineDataSystems \cup EngineMeshSystems \cup RenderingSystems) # {}
          => (ScannerSystems \cap systems) \subseteq ran
    /\ ran \cap {"ve_join_mesh", "r_join_mesh"} # {} => "start_modifications" \in ran
    /\ ran \cap {"ve_start_mesh_tasks", "r_start_mesh_tasks"} # {} => "join_data" \in ran

\* ------------------------------------------------------------------------
\* Dispatch order (voxel_engine.rs, rendering.rs)
\* ------------------------------------------------------------------------

\* The chunks a step of start_data_tasks took out of load_data_queue
DataDispatched ==
    (SeqToSet(load_data_queue) \cup DOMAIN gained["Data"]) \ SeqToSet(load_data_queue')

\* C28: in every call of start_data_tasks, with or without new
\* GainedRelevance events, a chunk that is dispatched is at least as close to
\* its closest Data observer as every chunk left in load_data_queue.
C28_DataClosestFirst ==
    [][ "start_data_tasks" \in ran' \ ran =>
            \A C \in DataDispatched, D \in SeqToSet(load_data_queue') :
                closest_distance(C, "Data") <= closest_distance(D, "Data") ]_vars

\* The chunks a step of start_mesh_tasks of rendering.rs took out of
\* load_mesh_queue
MeshDispatched ==
    (SeqToSet(mp_load_mesh_queue) \cup DOMAIN gained["Mesh"] \cup DOMAIN chunk_modified)
        \ SeqToSet(mp_load_mesh_queue')

\* C29: in every call of start_mesh_tasks of rendering.rs a chunk that is
\* dispatched is at least as close to its closest Mesh observer as every
\* chunk left in load_mesh_queue whose neighbours are all present, and the
\* chunks that stay in the queue keep their relative order.
C29_MeshClosestFirst ==
    [][ "r_start_mesh_tasks" \in ran' \ ran =>
            /\ \A C \in MeshDispatched, D \in SeqToSet(mp_load_mesh_queue') :
                  all_neighbors_available(D)
                      => closest_distance(C, "Mesh") <= closest_distance(D, "Mesh")
            /\ \E read_gained \in Orders(DOMAIN gained["Mesh"]),
                  read_modified \in Orders(DOMAIN chunk_modified) :
                  mp_load_mesh_queue' = SelectIn(r_sorted_queue(read_gained, read_modified),
                                                 SeqToSet(mp_load_mesh_queue')) ]_vars

\* C30: after every call of start_data_tasks load_data_queue is empty or
\* data_tasks holds exactly MAX_DATA_TASKS entries, also when a queued chunk
\* already has a generation task in flight.
C30_QueueEmptyOrTasksFull ==
    [][ "start_data_tasks" \in ran' \ ran =>
            load_data_queue' = <<>> \/ Cardinality(data_tasks') = MAX_DATA_TASKS ]_vars

\* ------------------------------------------------------------------------
\* Mesh dispatch of the VoxelEngine (voxel_engine.rs)
\* ------------------------------------------------------------------------

\* C31: start_mesh_tasks of voxel_engine.rs starts at most
\* MAX_MESH_TASKS - |mesh_tasks| tasks per call, none when mesh_tasks is
\* full, so VoxelEngine.mesh_tasks never holds more than MAX_MESH_TASKS
\* entries.
C31_EngineMeshTasksCapped ==
    [][ "ve_start_mesh_tasks" \in ran' \ ran /\ ~panicked' =>
            /\ Len(ve_mesh_tasks') <= MAX_MESH_TASKS
            /\ Len(ve_mesh_tasks) >= MAX_MESH_TASKS => ve_mesh_tasks' = ve_mesh_tasks
            /\ Len(ve_mesh_tasks) < MAX_MESH_TASKS =>
                 Len(ve_mesh_tasks') - Len(ve_mesh_tasks) <= MAX_MESH_TASKS - Len(ve_mesh_tasks)
      ]_vars

\* C32: the queue scan of start_mesh_tasks of voxel_engine.rs never takes its
\* unsigned index below zero: the call completes without underflow when
\* load_mesh_queue is empty and when the scan reaches the front of the queue
\* with task slots still free.
C32_EngineScanNoUnderflow ==
    [][ "ve_start_mesh_tasks" \in ran' \ ran => ~panicked' ]_vars


\* ------------------------------------------------------------------------
\* Re-meshing (rendering.rs)
\* ------------------------------------------------------------------------

\* The task limit of RemeshSpec: the smallest value of MAX_MESH_TASKS
\* (32 in rendering.rs) under which one chunk can have two tasks in flight.
RemeshTasks == 2

\* RemeshSpec: the scanners, the data pipeline and the meshing pipeline of
\* rendering.rs under one observer that stays and an editor, so that a chunk
\* is queued again by a ChunkModified event while its mesh task is running.
RemeshNext ==
    \/ Spawn(Player, Start, Channels)
    \/ Modify(ZERO, <<Interior>>)
    \/ PreUpdate
    \/ DataPipeline
    \/ r_join_mesh
    \/ r_unload_mesh
    \/ r_start_mesh_tasks_limited(RemeshTasks)
    \/ EndFrame

RemeshSpec == SnapshotInit /\ [][RemeshNext]_vars

\* C33: when two mesh tasks of one chunk were in flight at once and both
\* have been joined, the mesh entity of the chunk shows the result of the
\* task dispatched later, whichever of the two completed first.
C33_LaterTaskWins ==
    \A c \in DOMAIN mesh_versions.shown :
       c \notin InFlight(mp_mesh_tasks) =>
          mesh_versions.shown[c] = mesh_versions.dispatched[c]


\* ------------------------------------------------------------------------
\* Progress of the mesh queue (rendering.rs)
\* ------------------------------------------------------------------------

Far == <<48, 16, 16>>

\* One frame of the App goes on: the next system of the schedule runs, or
\* the frame ends.
Frame ==
    PreUpdate \/ DataPipeline \/ r_join_mesh \/ r_unload_mesh \/ r_start_mesh_tasks \/ EndFrame

\* poll_once returns the result of every running mesh task
MeshTasksComplete ==
    /\ mp_mesh_tasks # <<>>
    /\ \E produced \in SUBSET DOMAIN mp_mesh_tasks :
          r_join_mesh_polled(DOMAIN mp_mesh_tasks, produced)

\* RoamSpec: the scanners, the data pipeline and the meshing pipeline of
\* rendering.rs under an observer with a Data scanner that stays in chunk 1
\* and an observer with a Mesh scanner that roams between chunk 1 and
\* chunk 0.  The App never stops running frames, and every running mesh task
\* completes at some time.
RoamNext ==
    \/ Spawn("e1", Far, {"Data"})
    \/ Spawn("e2", Far, {"Mesh"})
    \/ \E w \in {Start, Far} : Move("e2", w)
    \/ Frame

RoamSpec ==
    SnapshotInit /\ [][RoamNext]_vars /\ WF_vars(Frame) /\ SF_vars(MeshTasksComplete)

\* The chunks of the tracked row that an observer in chunk 0 or 1 can desire
TrackedChunks == {<<x, 0, 0>> : x \in -2 .. 2}

\* The chunk waits in load_mesh_queue, mesh-desired, with all its
\* neighbours in world_data.
WaitsReady(c) ==
    /\ c \in SeqToSet(mp_load_mesh_queue)
    /\ c \in global_desired_chunks["Mesh"]
    /\ all_neighbors_available(c)

\* A step that takes a chunk which stays mesh-desired from load_mesh_queue
\* pushes a mesh task of that chunk.
LeavesQueueByTask ==
    \A c \in SeqToSet(mp_load_mesh_queue) \ SeqToSet(mp_load_mesh_queue') :
       c \in global_desired_chunks["Mesh"] \cap global_desired_chunks'["Mesh"] =>
          \E i \in (Len(mp_mesh_tasks) + 1) .. Len(mp_mesh_tasks') : mp_mesh_tasks'[i].pos = c

\* C34: a chunk of load_mesh_queue that stays mesh-desired leaves the queue
\* only by a mesh task being started for it, and once all its neighbours are
\* in world_data and stay there a task is started for it at some time,
\* provided every running task completes at some time.
C34_QueuedChunkMeshed ==
    /\ [][LeavesQueueByTask]_vars
    /\ \A c \in TrackedChunks :
          WaitsReady(c) ~>
             \/ c \notin SeqToSet(mp_load_mesh_queue)
             \/ c \notin global_desired_chunks["Mesh"]
             \/ ~all_neighbors_available(c)


\* ------------------------------------------------------------------------
\* Convergence of the generation pipeline (voxel_engine.rs)
\* ------------------------------------------------------------------------

\* One frame of the App without mesh systems and edits goes on.
DataFrame ==
    update_chunk_pos \/ scan_data \/ join_data \/ unload_data \/ start_data_tasks \/ EndFrame

\* poll_once returns the result of the running generation task of chunk c
DataTaskCompletes(c) ==
    /\ c \in data_tasks
    /\ \E finished \in SUBSET data_tasks : c \in finished /\ join_data_polled(finished)

\* SettleSpec: ChunkTrackerPlugin, the ScannerPlugin of the Data channel and
\* the generation systems of the data pipeline under one observer with a Data scanner that is spawned,
\* moved between chunk 0 and chunk 1 and despawned.  The App never stops
\* running frames, and every running generation task completes at some time.
SettleInit ==
    /\ systems = {"update_chunk_pos", "scan_data", "join_data", "unload_data", "start_data_tasks"}
    /\ overflow_checks = FALSE
    /\ InitState

SettleNext ==
    \/ \E w \in {Start, Far} : Spawn(Player, w, {"Data"})
    \/ Despawn(Player)
    \/ \E w \in {Start, Far} : Move(Player, w)
    \/ DataFrame

SettleSpec ==
    /\ SettleInit /\ [][SettleNext]_vars
    /\ WF_vars(DataFrame)
    /\ \A c \in TrackedChunks : SF_vars(DataTaskCompletes(c))

\* The ChunkPos components the observer of SettleSpec can come to rest with
RestingPositions ==
    {EmptyMap} \cup {[e \in {Player} |-> world_to_chunk(w)] : w \in {Start, Far}}

\* Nothing is queued or being generated, and every data-desired chunk is in
\* world_data.
Settled ==
    /\ load_data_queue = <<>>
    /\ data_tasks = {}
    /\ global_desired_chunks["Data"] \subseteq DOMAIN world_data

\* C35: if from some tick on no scanner is added, removed or moved to another
\* chunk, and every running generation task completes at some time, then from
\* some time on load_data_queue and data_tasks are empty and every chunk of
\* GlobalDesired<Data> is a key of world_data, whatever moves, additions and
\* removals came before.
C35_DataSettles ==
    \A cp \in RestingPositions : <>[](chunk_pos = cp) => <>[]Settled

\* The pipeline has settled under an observer after earlier moves left a
\* chunk in world_data that is no longer desired.
C35_Witness ==
    /\ Idle
    /\ Settled
    /\ global_desired_chunks["Data"] # {}
    /\ DOMAIN world_data # global_desired_chunks["Data"]


\* ------------------------------------------------------------------------
\* Modifications and the mesh queues (voxel_engine.rs, rendering.rs)
\* ------------------------------------------------------------------------

\* C36: a modification puts no chunk outside GlobalDesired<Mesh> into a mesh
\* load queue: the chunks start_modifications adds to load_mesh_queue of the
\* VoxelEngine (the modified chunks and the neighbours their edits touch) and
\* the chunks of ChunkModified events that start_mesh_tasks of rendering.rs
\* adds to its queue are mesh-desired.
C36_ModifiedQueuedIfDesired ==
    [][ /\ "start_modifications" \in ran' \ ran =>
              SeqToSet(ve_load_mesh_queue') \ SeqToSet(ve_load_mesh_queue)
                 \subseteq global_desired_chunks["Mesh"]
        /\ "r_start_mesh_tasks" \in ran' \ ran =>
              \A c \in DOMAIN chunk_modified \ global_desired_chunks["Mesh"] :
                 c \notin SeqToSet(mp_load_mesh_queue) => c \notin SeqToSet(mp_load_mesh_queue')
      ]_vars


\* A step that writes voxels of a chunk in world_data
Writes(c) ==
    /\ c \in DOMAIN world_data'
    /\ world_data'[c].writes # EmptyMap
    /\ c \in DOMAIN world_data => world_data'[c].writes # world_data[c].writes

\* C37: start_modifications leaves chunk_modifications empty; a batch for a
\* chunk that is not in world_data is dropped in that step, without an entry
\* in world_data and without a ChunkModified event for the chunk, and it is
\* not applied later: voxels are written only by the start_modifications
\* step that holds the batch, to a chunk that is in world_data at that step.
C37_BatchForMissingChunkDropped ==
    [][ /\ "start_modifications" \in ran' \ ran =>
              /\ chunk_modifications' = EmptyMap
              /\ \A pos \in DOMAIN chunk_modifications \ DOMAIN world_data :
                    /\ pos \notin DOMAIN world_data'
                    /\ Copies(chunk_modified', pos) = Copies(chunk_modified, pos)
        /\ \A c \in DOMAIN world_data' :
              Writes(c) =>
                 /\ "start_modifications" \in ran' \ ran
                 /\ c \in DOMAIN chunk_modifications \cap DOMAIN world_data
      ]_vars

\* The batch of EditSpec was addressed to the chunk whose generation task
\* was running, start_modifications dropped it, and the chunk was generated
\* afterwards: both chunks are in world_data and neither has a write.
C37_Witness ==
    /\ "start_modifications" \in ran
    /\ chunk_modifications = EmptyMap
    /\ UniformChunks \subseteq DOMAIN world_data
    /\ \A c \in UniformChunks : world_data[c].writes = EmptyMap


\* ------------------------------------------------------------------------
\* Sample grid of the 3D downsampler (chunk.rs)
\* ------------------------------------------------------------------------

\* The call asks the sampler built for t = <<upsampling, origin, buffer>>
AsksSampler(t) ==
    /\ call.fn = "get_noise"
    /\ call.args[1] = "3D"
    /\ call.args[2] = NoiseDownSampler3D_new(t[1], t[2], t[3])

\* The grid spans [(O >> u) - b, ((O + 32) >> u) + 1 + b) on every axis
SpansBufferedGrid(t) ==
    \A a \in 1..3 :
       /\ call.args[2].min_point[a] = ShiftRight(t[2][a], t[1]) - t[3][a]
       /\ call.args[2].max_point[a] = ShiftRight(t[2][a] + CHUNK_SIZE, t[1]) + 1 + t[3][a]

\* The point asked lies in [O - b * 2^u, O + 32 + b * 2^u) on every axis
AskedInsideBuffer(t) ==
    \A a \in 1..3 :
       /\ t[2][a] - ShiftLeft(t[3][a], t[1]) <= call.args[3][a]
       /\ call.args[3][a] < t[2][a] + CHUNK_SIZE + ShiftLeft(t[3][a], t[1])

\* The index get_noise reads for the corner d of the cell of the point asked
CornerIndex(d) ==
    LET sampler == call.args[2]
        local == [a \in 1..3 |->
                     ShiftRight(call.args[3][a], sampler.upsampling) - sampler.min_point[a]]
    IN  (local[1] + d[1]) + (local[3] + d[3]) * sampler.edge_length[1]
           + (local[2] + d[2]) * sampler.edge_length[1] * sampler.edge_length[3]

\* Every read is inside samples and holds the sample of the grid corner it
\* stands for.
ReadsOwnCorners ==
    /\ ~call.panic
    /\ \A d \in {<<x, y, z>> : x \in {0, 1}, y \in {0, 1}, z \in {0, 1}} :
          /\ CornerIndex(d) \in 0..(call.args[2].len - 1)
          /\ Sample3D(call.args[2], CornerIndex(d)) =
                [a \in 1..3 |->
                    ShiftLeft(ShiftRight(call.args[3][a], call.args[2].upsampling) + d[a],
                              call.args[2].upsampling)]

\* C38: a 3D downsampler built for a chunk origin O, upsampling u in 0..5
\* and buffer b spans the grid [(O >> u) - b, ((O + 32) >> u) + 1 + b) on
\* every axis, and a query at a world point of [O - b * 2^u, O + 32 + b * 2^u)
\* reads only indices inside samples, each the grid corner it stands for.
C38_BufferedGridCoversQueries ==
    \A t \in BufferedSamplers :
       AsksSampler(t) =>
          /\ SpansBufferedGrid(t)
          /\ AskedInsideBuffer(t) => ReadsOwnCorners


\* ------------------------------------------------------------------------
\* load_data_queue against GlobalScannerDesiredChunks<DataScanner>
\* ------------------------------------------------------------------------

\* C39: at the end of every tick every chunk of load_data_queue is a member
\* of GlobalScannerDesiredChunks<DataScanner>, and every chunk start_data_tasks
\* takes out of the queue for generation is a member when it is taken: a
\* chunk that lost its relevance while queued was removed by unload_data of
\* the same tick and is dispatched only after it was gained again.
C39_QueuedDataIsDesired ==
    /\ [](ran = systems /\ ~panicked =>
             SeqToSet(load_data_queue) \subseteq global_desired_chunks["Data"])
    /\ [][ "start_data_tasks" \in ran' \ ran =>
             LET queued == SeqToSet(load_data_queue) \cup DOMAIN gained["Data"]
             IN  /\ queued \ SeqToSet(load_data_queue') \subseteq global_desired_chunks["Data"]
                 /\ data_tasks' \ data_tasks \subseteq global_desired_chunks["Data"] ]_vars

\* The end of a tick whose scan lost the chunk at the far end of the
\* observer's box while a nearer chunk, queued no later and sorted before it,
\* still waits behind a full data_tasks: the lost chunk was in the queue when
\* unload_data ran and is in it no more.
C39_Witness ==
    /\ ran = systems
    /\ ~panicked
    /\ Cardinality(data_tasks) = MAX_DATA_TASKS
    /\ <<-2, 0, 0>> \in DOMAIN lost["Data"]
    /\ <<-2, 0, 0>> \notin SeqToSet(load_data_queue) \cup data_tasks
    /\ <<-1, 0, 0>> \in SeqToSet(load_data_queue) \ data_tasks


=============================================================================
